---------------------------- MODULE Spec2Model ----------------------------
(***************************************************************************)
(* SIMS-RF-Control: the instrument communication layer and the sweep       *)
(* scheduler.                                                              *)
(*                                                                         *)
(*   BusSpec    TDKPowerSupply.send_command called by several threads on   *)
(*              proxies that share one serial transport (TDK_Control.py).  *)
(*   SweepSpec  MainWindow.start_step_and_measure, stop_operations and the *)
(*              _step_and_measure_thread worker, in both main-window       *)
(*              variants (energy-spread "ES", combined supply/ammeter      *)
(*              "CB"), one worker thread.                                  *)
(*   RetrySpec  the same, where a measurement may fail.                    *)
(*   RaceSpec   the same handlers and workers with two worker threads.     *)
(*   FairSweepSpec  SweepSpec with every live worker thread scheduled.     *)
(***************************************************************************)
EXTENDS Integers, Sequences, FiniteSets, TLC

VARIABLES
    \* ---- shared serial bus (TDK_Control.py) ----
    serialLock,   \* TDKPowerSupply._serial_lock: the thread holding it, or NoThread
    isOpen,       \* serial.is_open of each transport
    sc,           \* per calling thread: its position inside send_command
    wire,         \* what the transport has observed, in order
    nSends,       \* calls made so far on the proxies
    instLock,     \* self._instance_lock of each proxy: its holder, or NoThread
    \* ---- main window and its workers (main_windows.py, both variants) ----
    variant,      \* which main window runs: "ES" or "CB"
    dom,          \* the bounds in force in this behaviour
    tdk, amm,     \* self.tdk / self.amm are set (a device object exists)
    stopEvent,    \* self._stop_event
    ammLock,      \* self._amm_lock (ES): the worker holding it, or NoThread
    wk,           \* per worker thread: locals of _step_and_measure_thread
    nSweeps,      \* sweep threads started so far
    ui,           \* what the last UI handler did
    \* ---- the fixed-interval poll and the manual measurement ----
    stopCont,     \* self._cont_stop_event (ES)
    pl,           \* per poll thread: locals of _measure_loop
    nPolls,       \* poll threads started so far
    uiAt,         \* where the UI thread is: "idle", or inside single_measure
    \* ---- the serial objects behind the supplies ----
    sers,         \* the serial.Serial objects created so far, in order
    on,           \* which of them self.tdk, self.tdk_lens and self.ser21 hold
    \* ---- frames and responses as text (SCPI.py, TDK_Control.py, Ammeter_Control.py) ----
    tx,           \* the last frame built or response read, and by which component
    \* ---- instrument objects and the RF control window ----
    km,           \* a KeithleyPicoammeter object (Ammeter_Control.py)
    scpi,         \* a SCPI_Controller object (SCPI.py)
    rf,           \* SIMS-RF-Control.py: the main window and its PowerThreads
    disp          \* energy-spread window: the display-update worker and its flag

busVars   == <<serialLock, isOpen, sc, wire, nSends, instLock>>
sweepVars == <<variant, dom, tdk, amm, stopEvent, ammLock, wk, nSweeps, ui>>
pollVars  == <<stopCont, pl, nPolls, uiAt>>
connVars  == <<sers, on>>
codecVars == <<tx>>
appVars   == <<km, scpi, rf, disp>>
vars      == <<serialLock, isOpen, sc, wire, nSends, instLock,
               variant, dom, tdk, amm, stopEvent, ammLock, wk, nSweeps, ui,
               stopCont, pl, nPolls, uiAt, sers, on, tx, km, scpi, rf, disp>>

NoThread == "none"
None     == "None"

(***************************************************************************)
(* Part 1.  The shared serial bus                                          *)
(***************************************************************************)

\* Threads that call send_command (UI thread, display updater, a worker).
BusThreads == {"t1", "t2"}
\* The proxies the main window creates: main supply and lens supply on the
\* shared port, suppressor supply on a port of its own.
Proxies == {"tdk", "tdk_lens", "tdk_fcup"}
\* The serial objects, and self.serial of each proxy.
Transports == {"ser21", "ser11"}
Transport(p) == IF p = "tdk_fcup" THEN "ser11" ELSE "ser21"
\* self.address of each proxy (defaults of the address fields).
Address(p) == IF p = "tdk" THEN 7 ELSE 6
\* How many send_command calls are made in a behaviour.
MaxSends == 2

\* What the device can have sent when the response is read, and what
\* .decode('ascii', errors='ignore').strip() makes of it.
Raws == {" 12.5\r\n", "abc\n", " \n", "data\n"}
Strip(raw) ==
    CASE raw = " 12.5\r\n" -> "12.5"
      [] raw = "abc\n" -> "abc"
      [] raw = " \n" -> ""
      [] raw = "data\n" -> "data"

\* The operations of a proxy: send_command called directly, and the derived
\* operations.
Ops == {"send_command", "set_voltage", "set_current", "set_output",
        "get_actual_voltage", "get_actual_current", "get_id", "reset"}
\* get_response=True
Query(op) == op \in {"get_actual_voltage", "get_actual_current", "get_id"}

\* An operation's result: None, True, a string, a float (in thousandths),
\* or an exception that leaves the operation.
ResNone == [kind |-> "none", v |-> 0, s |-> ""]
ResTrue == [kind |-> "bool", v |-> 1, s |-> ""]
ResStr(x) == [kind |-> "str", v |-> 0, s |-> x]
ResFloat(x) == [kind |-> "float", v |-> x, s |-> ""]
ResRaised == [kind |-> "raised", v |-> 0, s |-> ""]

IdleSend ==
    [pc |-> "idle", p |-> "tdk", get |-> FALSE, n |-> 0, ret |-> None,
     op |-> "send_command", res |-> ResNone,
     checks |-> 0, why |-> "none", raw |-> "", faultAt |-> 0]

\* One observation of the transport: kind k, written by thread t in the call
\* numbered n (calls are numbered as they begin) on proxy p; a is the address a select frame carries (0 otherwise).
Ev(k, t, a) == [k |-> k, t |-> t, n |-> sc[t].n, p |-> sc[t].p, a |-> a]

\* The transport's record of what was done on it, kept where dom.trace says
\* a property reads it.
Logged(e) == IF dom.trace THEN Append(wire, e) ELSE wire

\* select_cmd = f"INSTrument:NSELect {self.address}\n"
SelectFrameAnyAddress(p) == 1
SelectFrame(p) == Address(p)

\* `with TDKPowerSupply._serial_lock:` can be entered by thread t.
LockFreeIgnored(t) == TRUE
LockFree(t) == serialLock = NoThread

\* The is_open test of send_command, made before the lock is taken: the
\* call goes on to the lock, or returns None.  back is where the caller
\* continues.
Entered(t, back) ==
    IF isOpen[Transport(sc[t].p)]
      THEN [sc EXCEPT ![t].pc = "lock",
                      ![t].why = IF sc[t].get THEN "pending" ELSE "noresp"]
      ELSE [sc EXCEPT ![t].pc = back, ![t].why = "closed"]

\* Where send_command returns to: its caller is a thread (a direct call) or
\* a derived operation.
Back(op) == IF op = "send_command" THEN "idle" ELSE "return"

\* send_command called directly: the call and its is_open test.
SendBegin(t) ==
    /\ sc[t].pc = "idle"
    /\ nSends < MaxSends
    /\ nSends' = nSends + 1
    /\ \E p \in dom.proxies, g \in BOOLEAN :
         sc' = [sc EXCEPT ![t] =
                  [IdleSend EXCEPT
                     !.pc = IF isOpen[Transport(p)] THEN "lock" ELSE "idle",
                     !.p = p, !.get = g, !.n = nSends + 1,
                     !.why = IF ~isOpen[Transport(p)] THEN "closed"
                             ELSE IF g THEN "pending" ELSE "noresp"]]
    /\ UNCHANGED <<serialLock, isOpen, wire, instLock>>
    /\ UNCHANGED sweepVars
    /\ UNCHANGED pollVars
    /\ UNCHANGED connVars
    /\ UNCHANGED codecVars
    /\ UNCHANGED appVars

\* The thread that owns the lock once `with` has been entered by t.
HolderNobody(t) == NoThread
Holder(t) == t

\* with TDKPowerSupply._serial_lock: (blocking acquire)
SendLock(t) ==
    /\ sc[t].pc = "lock"
    /\ LockFree(t)
    /\ serialLock' = Holder(t)
    /\ sc' = [sc EXCEPT ![t].pc = "flushIn"]
    /\ UNCHANGED <<isOpen, wire, nSends, instLock>>
    /\ UNCHANGED sweepVars
    /\ UNCHANGED pollVars
    /\ UNCHANGED connVars
    /\ UNCHANGED codecVars
    /\ UNCHANGED appVars

\* except Exception: log, return None.  The with block is left next.
AfterFaultReturns == "idle"
AfterFault == "unlock"
Faulted(t) ==
    [sc EXCEPT ![t].pc = AfterFault, ![t].ret = None, ![t].why = "fault",
               ![t].faultAt = Len(wire)]

\* One transport call of send_command; it raises when the port has been
\* closed, and may raise on a hard I/O fault: control goes to the except
\* clause, which returns None.
TransportCall(t, at, k, a, next) ==
    /\ sc[t].pc = at
    /\ \E fault \in BOOLEAN :
         IF fault \/ ~isOpen[Transport(sc[t].p)]
           THEN /\ sc' = Faulted(t)
                /\ wire' = wire
           ELSE /\ sc' = [sc EXCEPT ![t].pc = next]
                /\ wire' = Logged(Ev(k, t, a))
    /\ UNCHANGED <<serialLock, isOpen, nSends, instLock>>
    /\ UNCHANGED sweepVars
    /\ UNCHANGED pollVars
    /\ UNCHANGED connVars
    /\ UNCHANGED codecVars
    /\ UNCHANGED appVars

SendFlushInput(t)  == TransportCall(t, "flushIn", "flushIn", 0, "flushOut")
SendFlushOutput(t) == TransportCall(t, "flushOut", "flushOut", 0, "select")
SendSelect(t) ==
    TransportCall(t, "select", "sel", SelectFrame(sc[t].p), "command")
SendCommand(t) ==
    TransportCall(t, "command", "cmd", 0,
                  IF sc[t].get THEN "read" ELSE "unlock")

\* What send_command returns when no data is waiting at either test.
NoDataAbsent == None
NoData == ""

\* if get_response: in_waiting is tested; with data waiting the response is
\* read (read_until) and returned stripped; otherwise in_waiting is tested
\* once more and the data then waiting is read and returned stripped, or ""
\* is returned.
SendRead(t) ==
    /\ sc[t].pc = "read"
    /\ \E fault, first, second \in BOOLEAN, raw \in dom.raws :
         IF fault \/ ~isOpen[Transport(sc[t].p)]
           THEN /\ sc' = Faulted(t)
                /\ wire' = wire
           ELSE IF first \/ second
             THEN /\ sc' = [sc EXCEPT
                              ![t].pc = "unlock", ![t].ret = Strip(raw),
                              ![t].raw = raw,
                              ![t].checks = IF first THEN 1 ELSE 2,
                              ![t].why = IF first THEN "first" ELSE "second"]
                  /\ wire' = Logged(Ev("read", t, 0))
             ELSE /\ sc' = [sc EXCEPT ![t].pc = "unlock", ![t].ret = NoData,
                                      ![t].checks = 2, ![t].why = "nodata"]
                  /\ wire' = wire
    /\ UNCHANGED <<serialLock, isOpen, nSends, instLock>>
    /\ UNCHANGED sweepVars
    /\ UNCHANGED pollVars
    /\ UNCHANGED connVars
    /\ UNCHANGED codecVars
    /\ UNCHANGED appVars

\* leaving the with block releases the lock on every path; send_command
\* returns
SendUnlock(t) ==
    /\ sc[t].pc = "unlock"
    /\ serialLock' = IF serialLock = t THEN NoThread ELSE serialLock
    /\ sc' = [sc EXCEPT ![t].pc = Back(sc[t].op)]
    /\ UNCHANGED <<isOpen, wire, nSends, instLock>>
    /\ UNCHANGED sweepVars
    /\ UNCHANGED pollVars
    /\ UNCHANGED connVars
    /\ UNCHANGED codecVars
    /\ UNCHANGED appVars

\* A port is closed under its proxies (disconnect handler, cable pulled).
PortClosed ==
    /\ \E tr \in {Transport(p) : p \in dom.proxies} :
         /\ isOpen[tr]
         /\ isOpen' = [isOpen EXCEPT ![tr] = FALSE]
    /\ UNCHANGED <<serialLock, sc, wire, nSends, instLock>>
    /\ UNCHANGED sweepVars
    /\ UNCHANGED pollVars
    /\ UNCHANGED connVars
    /\ UNCHANGED codecVars
    /\ UNCHANGED appVars

BusInit ==
    /\ serialLock = NoThread
    /\ isOpen = [tr \in Transports |-> TRUE]
    /\ sc = [t \in BusThreads |-> IdleSend]
    /\ wire = <<>>
    /\ nSends = 0
    /\ instLock = [p \in Proxies |-> NoThread]

\* `with self._instance_lock:` opens set_voltage, set_current and set_output
\* only; the other operations call send_command at once.
TakesInstanceLockAlways(op) == TRUE
TakesInstanceLock(op) == op \in {"set_voltage", "set_current", "set_output"}

\* A derived operation is called on a proxy.
OpCall(t) ==
    /\ sc[t].pc = "idle"
    /\ nSends < MaxSends
    /\ nSends' = nSends + 1
    /\ \E p \in dom.proxies, op \in dom.ops :
         sc' = [sc EXCEPT ![t] =
                  [IdleSend EXCEPT
                     !.pc = IF TakesInstanceLock(op) THEN "ilock" ELSE "entry",
                     !.p = p, !.op = op, !.get = Query(op), !.n = nSends + 1]]
    /\ UNCHANGED <<serialLock, isOpen, wire, instLock>>
    /\ UNCHANGED sweepVars
    /\ UNCHANGED pollVars
    /\ UNCHANGED connVars
    /\ UNCHANGED codecVars
    /\ UNCHANGED appVars

\* with self._instance_lock: (blocking acquire)
OpLock(t) ==
    /\ sc[t].pc = "ilock"
    /\ instLock[sc[t].p] = NoThread
    /\ instLock' = [instLock EXCEPT ![sc[t].p] = t]
    /\ sc' = [sc EXCEPT ![t].pc = "entry"]
    /\ UNCHANGED <<serialLock, isOpen, wire, nSends>>
    /\ UNCHANGED sweepVars
    /\ UNCHANGED pollVars
    /\ UNCHANGED connVars
    /\ UNCHANGED codecVars
    /\ UNCHANGED appVars

\* The operation calls send_command, which tests is_open first.
OpEnter(t) ==
    /\ sc[t].pc = "entry"
    /\ sc' = Entered(t, "return")
    /\ UNCHANGED <<serialLock, isOpen, wire, nSends, instLock>>
    /\ UNCHANGED sweepVars
    /\ UNCHANGED pollVars
    /\ UNCHANGED connVars
    /\ UNCHANGED codecVars
    /\ UNCHANGED appVars

\* float(response) succeeds on these texts, and its value in thousandths.
IsFloatText(x) == x \in {"12.5"}
FloatOf(x) == CASE x = "12.5" -> 12500

\* `except ValueError:` around float(response).
CatchesValueErrorNever == FALSE
CatchesValueError == TRUE

\* if response: try: return float(response) except ValueError: log
\* return None
Parse(r) ==
    IF r = None \/ r = "" THEN ResNone
    ELSE IF IsFloatText(r) THEN ResFloat(FloatOf(r))
    ELSE IF CatchesValueError THEN ResNone
    ELSE ResRaised

\* What the operation returns, given what send_command returned.
Result(op, r) ==
    CASE op \in {"set_voltage", "set_current", "set_output"} -> ResTrue
      [] op \in {"get_actual_voltage", "get_actual_current"} -> Parse(r)
      [] op = "get_id" -> IF r = None THEN ResNone ELSE ResStr(r)
      [] OTHER -> ResNone

\* The operation returns; leaving `with self._instance_lock:` releases the
\* lock.
OpReturn(t) ==
    /\ sc[t].pc = "return"
    /\ sc' = [sc EXCEPT ![t].pc = "idle",
                        ![t].res = Result(sc[t].op, sc[t].ret)]
    /\ instLock' = [p \in Proxies |->
                      IF instLock[p] = t THEN NoThread ELSE instLock[p]]
    /\ UNCHANGED <<serialLock, isOpen, wire, nSends>>
    /\ UNCHANGED sweepVars
    /\ UNCHANGED pollVars
    /\ UNCHANGED connVars
    /\ UNCHANGED codecVars
    /\ UNCHANGED appVars

\* Threads calling the derived operations.
OpNext ==
    \/ \E t \in BusThreads :
         \/ OpCall(t)
         \/ OpLock(t)
         \/ OpEnter(t)
         \/ SendLock(t)
         \/ SendFlushInput(t)
         \/ SendFlushOutput(t)
         \/ SendSelect(t)
         \/ SendCommand(t)
         \/ SendRead(t)
         \/ SendUnlock(t)
         \/ OpReturn(t)
    \/ PortClosed

\* The steps of one thread that has called a derived operation.
OpStep(t) ==
    \/ OpLock(t)
    \/ OpEnter(t)
    \/ SendLock(t)
    \/ SendFlushInput(t)
    \/ SendFlushOutput(t)
    \/ SendSelect(t)
    \/ SendCommand(t)
    \/ SendRead(t)
    \/ SendUnlock(t)
    \/ OpReturn(t)

BusNext ==
    \/ \E t \in BusThreads :
         \/ SendBegin(t)
         \/ SendLock(t)
         \/ SendFlushInput(t)
         \/ SendFlushOutput(t)
         \/ SendSelect(t)
         \/ SendCommand(t)
         \/ SendRead(t)
         \/ SendUnlock(t)
    \/ PortClosed



(***************************************************************************)
(* Part 2.  The step sweep (main_windows.py, both variants)                *)
(*                                                                         *)
(* Voltages are integers on a grid whose unit is the sweep's tolerance:    *)
(* one unit is 1e-12 V, so the code's eps is 1.                            *)
(***************************************************************************)

\* Worker threads that can be alive at once (threading.Thread per start).
Workers == {"w1", "w2"}
\* Largest start/stop value and largest |step| the operator enters.
MaxVolt == 5
MaxStep == 3
\* The same, where the retries of a failing measurement are followed.
SmallVolt == 2
SmallStep == 2
\* The stop value and |step| of the sweeps two workers run at once.
RaceVolt == 2
RaceStep == 2
\* The stop value of the sweep that runs beside a poll.
PollVolts == 1
\* Sweeps started in one behaviour: with one worker thread, with two.
MaxSweeps == 1
RaceSweeps == 2
\* eps = 1e-12 in _step_and_measure_thread (ES), in grid units.
Eps == 1
\* `if mid_attempts >= 10` (ES)
MaxAttempts == 10
\* The logs keep the first dom.log entries of a worker: two more than the
\* longest sweep that ends (only a sweep that never ends writes more).
LogRoom == 2

Abs(x) == IF x < 0 THEN -x ELSE x
Sign(x) == IF x > 0 THEN 1 ELSE IF x < 0 THEN -1 ELSE 0
Log(s, e) == IF Len(s) < dom.log THEN Append(s, e) ELSE s
Bump(n) == IF n < 2 THEN n + 1 ELSE 2

\* What the text fields parse to when float() accepts them.
Forms(d) == [start : d.starts, stop : d.stops, step : d.steps]

\* What amm.measure_current() can return: a reading, or None.
Reading == "reading"
Outcomes(d) == IF d.fail THEN {Reading, None} ELSE {Reading}
\* The same for the measurements of a poll and of single_measure.
PollOutcomes(d) == IF d.pollFail THEN {Reading, None} ELSE {Reading}

IdleWorker ==
    [pc |-> "idle", start |-> 0, stop |-> 0, step |-> 0, volt |-> 0,
     mid_cur |-> None, mid_attempts |-> 0,
     cmds |-> <<>>, emitted |-> <<>>, exit |-> "none",
     stepMeas |-> 0, reqd |-> FALSE,
     sinceCmds |-> 0, sinceEmits |-> 0, sinceTops |-> 0, sinceSteps |-> 0]

NewWorker(f) ==
    [IdleWorker EXCEPT !.pc = "top", !.start = f.start, !.stop = f.stop,
                       !.step = f.step, !.volt = f.start]

Running(w) == wk[w].pc \notin {"idle", "done"}

\* History: what a worker has done since stop was requested while it ran
\* (counted to 2).
Since(w, n) == IF wk[w].reqd THEN Bump(n) ELSE n

\* History: the steps worker w has taken since stop was requested while it
\* ran, counted while the flag stays set; f is the step's new wk.
Tick(w, f) ==
    [f EXCEPT ![w].sinceSteps =
        IF wk[w].reqd /\ stopEvent /\ @ < 9 THEN @ + 1 ELSE @]

\* The thread object a start creates: a slot no live worker occupies.
FreeWorker == CHOOSE w \in dom.threads : ~Running(w)

IdleUi == [op |-> "none", result |-> "none", cmds |-> <<>>,
           started |-> FALSE, opposed |-> FALSE]

\* if (stop - start) * step < 0: reject
MismatchNever(start, stop, step) == FALSE
Mismatch(start, stop, step) == (stop - start) * step < 0

\* Commands the handler writes before it has its parameters: the ES variant
\* reads start from the supply (self.tdk.get_actual_voltage()), the CB
\* variant reads it from the start field.
StartQuery == IF variant = "ES" THEN <<"MEAS:VOLT?">> ELSE <<>>

\* The UI thread runs one handler at a time.
UiFree == uiAt = "idle"

\* Poll threads that can be alive at once (threading.Thread per start).
Pollers == {"p1", "p2"}

IdlePoll ==
    [pc |-> "idle", steps |-> 0, i |-> 0, val |-> None, volt |-> None,
     nMeas |-> 0, emitted |-> <<>>, exit |-> "none",
     flagged |-> FALSE, saw |-> FALSE]

PollRunning(p) == pl[p].pc \notin {"idle", "done"}

\* History: a cancellation flag was set while the poll ran.
Flagged(f) ==
    [p \in Pollers |->
       IF f[p].pc \notin {"idle", "done"}
         THEN [f[p] EXCEPT !.flagged = TRUE] ELSE f[p]]

\* No serial object: self.tdk, self.tdk_lens and self.ser21 are None.
NoSerials == [tdk |-> 0, lens |-> 0, ser21 |-> 0]

\* Serial objects a behaviour may create.
MaxSerials == 3

\* What the operator has typed in a port field: the form's default, unless
\* the behaviour varies it.
Ports == IF "ports" \in DOMAIN dom THEN dom.ports ELSE {"COM21"}
\* port.lower()
Lower(port) == IF port \in {"COM21", "com21"} THEN "com21" ELSE "com5"
\* Whether a connected supply can be connected again in this behaviour.
Reconnects == "reconnect" \in DOMAIN dom /\ dom.reconnect

\* if self.ser21 and self.ser21.is_open and self.ser21.port == port
Reuses(port) ==
    /\ variant = "ES"
    /\ on.ser21 # 0
    /\ sers[on.ser21].open
    /\ sers[on.ser21].port = port

\* serial.Serial(port, ...) has succeeded: a new open serial object.
NewSerial(port) ==
    [port |-> port, open |-> TRUE, shared |-> FALSE, closer |-> "none",
     left |-> {}]

\* The serial objects, once the handler has stored s in two proxies.
Sharing(ss, o) ==
    [i \in DOMAIN ss |->
       IF o.tdk = i /\ o.lens = i THEN [ss[i] EXCEPT !.shared = TRUE]
       ELSE ss[i]]

\* The references after a connect handler of the energy-spread window has
\* made proxy x (and, on COM21, the other proxy y when it was None) on
\* serial object s.
Connected(x, y, s, port, reuse) ==
    [on EXCEPT ![x] = s,
               ![y] = IF Lower(port) = "com21" /\ on[y] = 0 THEN s ELSE on[y],
               !.ser21 = IF ~reuse /\ Lower(port) = "com21" THEN s
                         ELSE on.ser21]

\* The state of the serial objects and references after connect_power /
\* connect_lens for proxy x on port: ser21 is reused, or a serial object is
\* opened; the combined variant opens one for its only proxy.
ConnectOn(x, y, port) ==
    LET reuse == Reuses(port)
        s == IF reuse THEN on.ser21 ELSE Len(sers) + 1
        ss == IF reuse THEN sers ELSE Append(sers, NewSerial(port))
        o == IF variant = "ES" THEN Connected(x, y, s, port, reuse)
             ELSE [on EXCEPT ![x] = s]
    IN  /\ reuse \/ Len(sers) < MaxSerials
        /\ on' = o
        /\ sers' = Sharing(ss, o)

\* connect_power: self.tdk exists afterwards, unless the port cannot be
\* opened (the handler then returns).
ConnectPower ==
    /\ UiFree
    /\ Reconnects \/ ~tdk
    /\ \E port \in Ports, opens \in BOOLEAN :
         IF opens \/ Reuses(port)
           THEN /\ ConnectOn("tdk", "lens", port)
                /\ tdk' = TRUE
           ELSE UNCHANGED <<tdk, sers, on>>
    /\ UNCHANGED <<variant, dom, amm, stopEvent, ammLock, wk, nSweeps, ui>>
    /\ UNCHANGED busVars
    /\ UNCHANGED pollVars
    /\ UNCHANGED codecVars
    /\ UNCHANGED appVars

\* connect_lens (energy-spread window)
ConnectLens ==
    /\ UiFree
    /\ variant = "ES"
    /\ \E port \in Ports, opens \in BOOLEAN :
         IF opens \/ Reuses(port)
           THEN /\ ConnectOn("lens", "tdk", port)
                /\ tdk' = (on'.tdk # 0)
           ELSE UNCHANGED <<tdk, sers, on>>
    /\ UNCHANGED <<variant, dom, amm, stopEvent, ammLock, wk, nSweeps, ui>>
    /\ UNCHANGED busVars
    /\ UNCHANGED pollVars
    /\ UNCHANGED codecVars
    /\ UNCHANGED appVars

\* Whether the proxy being disconnected is the last one: the other
\* reference is None.
LastProxyAlways(other) == TRUE
LastProxy(other) == other = 0

\* The serial objects after self.ser21.close() in handler h, which leaves
\* the references o.
Closed(h, o) ==
    [i \in DOMAIN sers |->
       IF i = on.ser21
         THEN [sers[i] EXCEPT
                 !.open = FALSE, !.closer = h,
                 !.left = {x \in {"tdk", "lens"} : o[x] = i}]
         ELSE sers[i]]

\* disconnect_power / disconnect_lens of the energy-spread window for
\* proxy x, y being the other one: with y still set only the reference is
\* dropped; otherwise ser21 is closed and forgotten.
DisconnectOn(h, x, y) ==
    IF ~LastProxy(on[y])
      THEN /\ on' = [on EXCEPT ![x] = 0]
           /\ sers' = sers
      ELSE /\ on' = [on EXCEPT ![x] = 0, !.ser21 = 0]
           /\ sers' = Closed(h, [on EXCEPT ![x] = 0])

\* disconnect_power: if self.tdk: ... self.tdk = None
DisconnectPower ==
    /\ UiFree
    /\ tdk
    /\ tdk' = FALSE
    /\ IF variant = "ES"
         THEN DisconnectOn("disconnect_power", "tdk", "lens")
         ELSE /\ on' = [on EXCEPT !.tdk = 0]
              /\ sers' = sers
    /\ UNCHANGED <<variant, dom, amm, stopEvent, ammLock, wk, nSweeps, ui>>
    /\ UNCHANGED busVars
    /\ UNCHANGED pollVars
    /\ UNCHANGED codecVars
    /\ UNCHANGED appVars

\* disconnect_lens: if self.tdk_lens: ... self.tdk_lens = None
DisconnectLens ==
    /\ UiFree
    /\ variant = "ES"
    /\ on.lens # 0
    /\ DisconnectOn("disconnect_lens", "lens", "tdk")
    /\ UNCHANGED <<variant, dom, tdk, amm, stopEvent, ammLock, wk, nSweeps, ui>>
    /\ UNCHANGED busVars
    /\ UNCHANGED pollVars
    /\ UNCHANGED codecVars
    /\ UNCHANGED appVars

\* The connect and disconnect handlers of the two supplies.
ConnNext ==
    \/ ConnectPower
    \/ ConnectLens
    \/ DisconnectPower
    \/ DisconnectLens

\* connect_amm: the device object exists afterwards.
ConnectAmm ==
    /\ UiFree
    /\ ~amm
    /\ amm' = TRUE
    /\ UNCHANGED <<variant, dom, tdk, stopEvent, ammLock, wk, nSweeps, ui>>
    /\ UNCHANGED busVars
    /\ UNCHANGED pollVars
    /\ UNCHANGED connVars
    /\ UNCHANGED codecVars
    /\ UNCHANGED appVars

\* disconnect_amm: if self.amm: self.amm.disconnect(); self.amm = None
DisconnectAmm ==
    /\ UiFree
    /\ amm
    /\ amm' = FALSE
    /\ UNCHANGED <<variant, dom, tdk, stopEvent, ammLock, wk, nSweeps, ui>>
    /\ UNCHANGED busVars
    /\ UNCHANGED pollVars
    /\ UNCHANGED connVars
    /\ UNCHANGED codecVars
    /\ UNCHANGED appVars

\* The parameter triples the handler rejects, and those it accepts.
Rejected(d) == {f \in Forms(d) : Mismatch(f.start, f.stop, f.step)}
Accepted(d) == Forms(d) \ Rejected(d)

\* Whether step points away from stop: (stop - start) and step have
\* opposite signs.
Opposed(f) == Sign(f.step) # 0 /\ Sign(f.stop - f.start) = 0 - Sign(f.step)

\* start_step_and_measure, the whole handler: the connection test, the
\* parameters (a float() that raises ends it), the direction test, then
\* self._stop_event.clear() and the new thread.
StartStepAndMeasure ==
    /\ UiFree
    /\ UNCHANGED <<variant, dom, tdk, amm, ammLock>>
    /\ UNCHANGED busVars
    /\ UNCHANGED pollVars
    /\ UNCHANGED connVars
    /\ UNCHANGED codecVars
    /\ UNCHANGED appVars
    /\ IF ~(tdk /\ amm)
         THEN /\ ui' = [IdleUi EXCEPT !.op = "start_step",
                                      !.result = "not_connected"]
              /\ UNCHANGED <<stopEvent, wk, nSweeps>>
         ELSE \/ /\ ui' = [IdleUi EXCEPT !.op = "start_step",
                                         !.result = "bad_params",
                                         !.cmds = StartQuery]
                 /\ UNCHANGED <<stopEvent, wk, nSweeps>>
              \/ \E o \in {Opposed(f) : f \in Rejected(dom)} :
                   /\ ui' = [IdleUi EXCEPT !.op = "start_step",
                                           !.result = "mismatch",
                                           !.cmds = StartQuery,
                                           !.opposed = o]
                   /\ UNCHANGED <<stopEvent, wk, nSweeps>>
              \/ \E f \in Accepted(dom) :
                   /\ \E w \in dom.threads : ~Running(w)
                   /\ nSweeps < dom.sweeps
                   /\ nSweeps' = nSweeps + 1
                   /\ stopEvent' = FALSE
                   /\ wk' = [wk EXCEPT ![FreeWorker] = NewWorker(f)]
                   /\ ui' = [IdleUi EXCEPT !.op = "start_step",
                                           !.result = "started",
                                           !.cmds = StartQuery,
                                           !.started = TRUE,
                                           !.opposed = Opposed(f)]

\* stop_operations: self._stop_event.set()
StopOperations ==
    /\ UiFree
    /\ stopEvent' = TRUE
    /\ wk' = [w \in Workers |->
                IF Running(w) /\ ~stopEvent
                  THEN [wk[w] EXCEPT !.reqd = TRUE, !.sinceCmds = 0,
                                     !.sinceEmits = 0, !.sinceTops = 0,
                                     !.sinceSteps = 0]
                  ELSE wk[w]]
    /\ pl' = Flagged(pl)
    /\ ui' = [IdleUi EXCEPT !.op = "stop", !.result = "requested"]
    /\ UNCHANGED <<variant, dom, tdk, amm, ammLock, nSweeps>>
    /\ UNCHANGED <<stopCont, nPolls, uiAt>>
    /\ UNCHANGED busVars
    /\ UNCHANGED connVars
    /\ UNCHANGED codecVars
    /\ UNCHANGED appVars


(***************************************************************************)
(* _step_and_measure_thread, energy-spread variant                         *)
(***************************************************************************)

Ascending(w) == wk[w].step > 0

\* A method is called on a handle that is None: AttributeError.  Neither
\* worker has a try block, so the exception ends the thread ("raised").
Missing(handle) == ~handle

\* The thread returns: its locals are gone, what it did remains.
Exit(w, why) ==
    [wk EXCEPT ![w].pc = "done", ![w].exit = why, ![w].volt = 0,
               ![w].mid_cur = None, ![w].mid_attempts = 0]

\* next_vol = volt + step, clamped to stop when it would pass it
NextVolUnclamped(volt, stop, step) == volt + step
NextVol(volt, stop, step) ==
    IF step > 0 /\ volt + step > stop THEN stop
    ELSE IF ~(step > 0) /\ volt + step < stop THEN stop
    ELSE volt + step

\* while mid_cur is None and not self._stop_event.is_set():
RetryCondNoStop(mid_cur, stopped) == mid_cur = None
RetryCond(mid_cur, stopped) == mid_cur = None /\ ~stopped

\* if mid_attempts >= 10: log and break
AttemptsExhaustedLate(n) == n > MaxAttempts
AttemptsExhausted(n) == n >= MaxAttempts

\* the voltage an emitted sample carries: (volt, mid_cur, timestamp)
SampleVoltNext(w) == wk[w].volt + wk[w].step
SampleVolt(w) == wk[w].volt

\* loop head: the out-of-range test, then the cancellation test
EsTop(w) ==
    /\ variant = "ES" /\ wk[w].pc = "top"
    /\ wk' = Tick(w,
             IF \/ Ascending(w) /\ wk[w].volt > wk[w].stop + Eps
                \/ ~Ascending(w) /\ wk[w].volt < wk[w].stop - Eps
               THEN Exit(w, "range")
             ELSE IF stopEvent
               THEN Exit(w, "cancelled")
             ELSE [wk EXCEPT ![w].pc = "set",
                             ![w].sinceTops = Since(w, wk[w].sinceTops)])
    /\ UNCHANGED <<variant, dom, tdk, amm, stopEvent, ammLock, nSweeps, ui>>
    /\ UNCHANGED busVars
    /\ UNCHANGED pollVars
    /\ UNCHANGED connVars
    /\ UNCHANGED codecVars
    /\ UNCHANGED appVars

\* self.tdk.set_voltage(volt); time.sleep(0.05).  cmds records the argument
\* of each set_voltage call.
EsSet(w) ==
    /\ variant = "ES" /\ wk[w].pc = "set"
    /\ wk' = Tick(w,
             IF Missing(tdk) THEN Exit(w, "raised")
             ELSE
             [wk EXCEPT ![w].pc = "midwait",
                        ![w].cmds = Log(wk[w].cmds, wk[w].volt),
                        ![w].stepMeas = 0,
                        ![w].sinceCmds = Since(w, wk[w].sinceCmds)])
    /\ UNCHANGED <<variant, dom, tdk, amm, stopEvent, ammLock, nSweeps, ui>>
    /\ UNCHANGED busVars
    /\ UNCHANGED pollVars
    /\ UNCHANGED connVars
    /\ UNCHANGED codecVars
    /\ UNCHANGED appVars

\* if self._stop_event.wait(mid_delay): break
EsMidWait(w) ==
    /\ variant = "ES" /\ wk[w].pc = "midwait"
    /\ wk' = Tick(w,
             IF stopEvent THEN Exit(w, "cancelled")
             ELSE [wk EXCEPT ![w].pc = "midcheck"])
    /\ UNCHANGED <<variant, dom, tdk, amm, stopEvent, ammLock, nSweeps, ui>>
    /\ UNCHANGED busVars
    /\ UNCHANGED pollVars
    /\ UNCHANGED connVars
    /\ UNCHANGED codecVars
    /\ UNCHANGED appVars

\* if self._stop_event.is_set(): break;  mid_cur = None; mid_attempts = 0
EsMidCheck(w) ==
    /\ variant = "ES" /\ wk[w].pc = "midcheck"
    /\ wk' = Tick(w,
             IF stopEvent THEN Exit(w, "cancelled")
             ELSE [wk EXCEPT ![w].pc = "cond", ![w].mid_cur = None,
                             ![w].mid_attempts = 0])
    /\ UNCHANGED <<variant, dom, tdk, amm, stopEvent, ammLock, nSweeps, ui>>
    /\ UNCHANGED busVars
    /\ UNCHANGED pollVars
    /\ UNCHANGED connVars
    /\ UNCHANGED codecVars
    /\ UNCHANGED appVars

\* the retry loop's condition
EsCond(w) ==
    /\ variant = "ES" /\ wk[w].pc = "cond"
    /\ wk' = Tick(w,
             IF RetryCond(wk[w].mid_cur, stopEvent)
               THEN [wk EXCEPT ![w].pc = "acquire"]
               ELSE [wk EXCEPT ![w].pc = "post"])
    /\ UNCHANGED <<variant, dom, tdk, amm, stopEvent, ammLock, nSweeps, ui>>
    /\ UNCHANGED busVars
    /\ UNCHANGED pollVars
    /\ UNCHANGED connVars
    /\ UNCHANGED codecVars
    /\ UNCHANGED appVars

\* `with self._amm_lock:` can be entered by thread t.
AmmLockFreeIgnored(t) == TRUE
AmmLockFree(t) == ammLock = NoThread

\* with self._amm_lock:
EsAcquire(w) ==
    /\ variant = "ES" /\ wk[w].pc = "acquire"
    /\ AmmLockFree(w)
    /\ ammLock' = w
    /\ wk' = Tick(w,
             [wk EXCEPT ![w].pc = "measure"])
    /\ UNCHANGED <<variant, dom, tdk, amm, stopEvent, nSweeps, ui>>
    /\ UNCHANGED busVars
    /\ UNCHANGED pollVars
    /\ UNCHANGED connVars
    /\ UNCHANGED codecVars
    /\ UNCHANGED appVars

\* mid_cur = self.amm.measure_current(); the lock is released; a failed
\* attempt is counted, and the tenth ends the loop
EsMeasure(w) ==
    /\ variant = "ES" /\ wk[w].pc = "measure"
    /\ ammLock' = NoThread
    /\ \E r \in Outcomes(dom) :
         wk' = Tick(w,
               IF Missing(amm) THEN Exit(w, "raised")
               ELSE
               [wk EXCEPT
                  ![w].mid_cur = r,
                  ![w].stepMeas = wk[w].stepMeas + 1,
                  ![w].sinceCmds = Since(w, wk[w].sinceCmds),
                  ![w].mid_attempts =
                      IF r = None THEN wk[w].mid_attempts + 1
                                  ELSE wk[w].mid_attempts,
                  ![w].pc =
                      IF r = None /\ AttemptsExhausted(wk[w].mid_attempts + 1)
                        THEN "post" ELSE "cond"])
    /\ UNCHANGED <<variant, dom, tdk, amm, stopEvent, nSweeps, ui>>
    /\ UNCHANGED busVars
    /\ UNCHANGED pollVars
    /\ UNCHANGED connVars
    /\ UNCHANGED codecVars
    /\ UNCHANGED appVars

\* if mid_cur is None: break;  self.sig.append_data.emit((volt, mid_cur, ts))
EsPost(w) ==
    /\ variant = "ES" /\ wk[w].pc = "post"
    /\ wk' = Tick(w,
             IF wk[w].mid_cur = None
               THEN Exit(w, IF wk[w].mid_attempts >= MaxAttempts
                              THEN "failed" ELSE "cancelled")
               ELSE [wk EXCEPT
                       ![w].pc = "remwait",
                       ![w].emitted = Log(wk[w].emitted,
                                          [v |-> SampleVolt(w),
                                           i |-> wk[w].mid_cur]),
                       ![w].sinceEmits = Since(w, wk[w].sinceEmits)])
    /\ UNCHANGED <<variant, dom, tdk, amm, stopEvent, ammLock, nSweeps, ui>>
    /\ UNCHANGED busVars
    /\ UNCHANGED pollVars
    /\ UNCHANGED connVars
    /\ UNCHANGED codecVars
    /\ UNCHANGED appVars

\* remaining = step_time - elapsed; if remaining > 0 and wait(remaining): break
EsRemWait(w) ==
    /\ variant = "ES" /\ wk[w].pc = "remwait"
    /\ \E remaining \in BOOLEAN :
         wk' = Tick(w,
               IF remaining /\ stopEvent THEN Exit(w, "cancelled")
               ELSE [wk EXCEPT ![w].pc = "advance"])
    /\ UNCHANGED <<variant, dom, tdk, amm, stopEvent, ammLock, nSweeps, ui>>
    /\ UNCHANGED busVars
    /\ UNCHANGED pollVars
    /\ UNCHANGED connVars
    /\ UNCHANGED codecVars
    /\ UNCHANGED appVars

\* next_vol; if abs(volt - stop) <= eps: break;  volt = next_vol
EsAdvance(w) ==
    /\ variant = "ES" /\ wk[w].pc = "advance"
    /\ wk' = Tick(w,
             IF Abs(wk[w].volt - wk[w].stop) <= Eps
               THEN Exit(w, "finished")
               ELSE [wk EXCEPT ![w].pc = "top",
                               ![w].volt = NextVol(wk[w].volt, wk[w].stop,
                                                   wk[w].step)])
    /\ UNCHANGED <<variant, dom, tdk, amm, stopEvent, ammLock, nSweeps, ui>>
    /\ UNCHANGED busVars
    /\ UNCHANGED pollVars
    /\ UNCHANGED connVars
    /\ UNCHANGED codecVars
    /\ UNCHANGED appVars

(***************************************************************************)
(* _step_and_measure_thread, combined supply/ammeter variant               *)
(***************************************************************************)

CbTop(w) ==
    /\ variant = "CB" /\ wk[w].pc = "top"
    /\ wk' = Tick(w,
             IF \/ Ascending(w) /\ wk[w].volt > wk[w].stop
                \/ ~Ascending(w) /\ wk[w].volt < wk[w].stop
               THEN Exit(w, "range")
             ELSE IF stopEvent
               THEN Exit(w, "cancelled")
             ELSE [wk EXCEPT ![w].pc = "set",
                             ![w].sinceTops = Since(w, wk[w].sinceTops)])
    /\ UNCHANGED <<variant, dom, tdk, amm, stopEvent, ammLock, nSweeps, ui>>
    /\ UNCHANGED busVars
    /\ UNCHANGED pollVars
    /\ UNCHANGED connVars
    /\ UNCHANGED codecVars
    /\ UNCHANGED appVars

\* self.tdk.set_voltage(volt); time.sleep(0.2)
CbSet(w) ==
    /\ variant = "CB" /\ wk[w].pc = "set"
    /\ wk' = Tick(w,
             IF Missing(tdk) THEN Exit(w, "raised")
             ELSE
             [wk EXCEPT ![w].pc = "measure",
                        ![w].cmds = Log(wk[w].cmds, wk[w].volt),
                        ![w].stepMeas = 0,
                        ![w].sinceCmds = Since(w, wk[w].sinceCmds)])
    /\ UNCHANGED <<variant, dom, tdk, amm, stopEvent, ammLock, nSweeps, ui>>
    /\ UNCHANGED busVars
    /\ UNCHANGED pollVars
    /\ UNCHANGED connVars
    /\ UNCHANGED codecVars
    /\ UNCHANGED appVars

\* cur = self.amm.measure_current()
CbMeasure(w) ==
    /\ variant = "CB" /\ wk[w].pc = "measure"
    /\ \E r \in Outcomes(dom) :
         wk' = Tick(w,
               IF Missing(amm) THEN Exit(w, "raised")
               ELSE
               [wk EXCEPT ![w].pc = "emit", ![w].mid_cur = r,
                          ![w].stepMeas = wk[w].stepMeas + 1,
                          ![w].sinceCmds = Since(w, wk[w].sinceCmds)])
    /\ UNCHANGED <<variant, dom, tdk, amm, stopEvent, ammLock, nSweeps, ui>>
    /\ UNCHANGED busVars
    /\ UNCHANGED pollVars
    /\ UNCHANGED connVars
    /\ UNCHANGED codecVars
    /\ UNCHANGED appVars

\* self.sig.append_data.emit((volt, cur, ts))
CbEmit(w) ==
    /\ variant = "CB" /\ wk[w].pc = "emit"
    /\ wk' = Tick(w,
             [wk EXCEPT ![w].pc = "hold",
                        ![w].emitted = Log(wk[w].emitted,
                                           [v |-> SampleVolt(w),
                                            i |-> wk[w].mid_cur]),
                        ![w].sinceEmits = Since(w, wk[w].sinceEmits)])
    /\ UNCHANGED <<variant, dom, tdk, amm, stopEvent, ammLock, nSweeps, ui>>
    /\ UNCHANGED busVars
    /\ UNCHANGED pollVars
    /\ UNCHANGED connVars
    /\ UNCHANGED codecVars
    /\ UNCHANGED appVars

\* the hold loop (it ends when step_time has elapsed or the flag is seen),
\* then volt += step
CbHold(w) ==
    /\ variant = "CB" /\ wk[w].pc = "hold"
    /\ wk' = Tick(w,
             [wk EXCEPT ![w].pc = "top", ![w].volt = wk[w].volt + wk[w].step])
    /\ UNCHANGED <<variant, dom, tdk, amm, stopEvent, ammLock, nSweeps, ui>>
    /\ UNCHANGED busVars
    /\ UNCHANGED pollVars
    /\ UNCHANGED connVars
    /\ UNCHANGED codecVars
    /\ UNCHANGED appVars

WorkerStep(w) ==
    \/ EsTop(w) \/ EsSet(w) \/ EsMidWait(w) \/ EsMidCheck(w) \/ EsCond(w)
    \/ EsAcquire(w) \/ EsMeasure(w) \/ EsPost(w) \/ EsRemWait(w)
    \/ EsAdvance(w)
    \/ CbTop(w) \/ CbSet(w) \/ CbMeasure(w) \/ CbEmit(w) \/ CbHold(w)

SweepNext ==
    \/ ConnectPower
    \/ ConnectAmm
    \/ StartStepAndMeasure
    \/ StopOperations
    \/ \E w \in Workers : WorkerStep(w)

(***************************************************************************)
(* start_measure, stop_continuous_measure, _measure_loop and               *)
(* single_measure (both variants)                                          *)
(***************************************************************************)

\* Largest count the operator enters for a poll; polls started in one
\* behaviour.
MaxCount == 2
MaxPolls == 1

\* The thread object a start creates: a slot no live poll occupies.
FreePoller == CHOOSE p \in dom.pollers : ~PollRunning(p)

\* The flags _measure_loop tests: both events in ES, the one event in CB.
PollFlag == IF variant = "ES" THEN stopCont \/ stopEvent ELSE stopEvent

\* for _ in range(steps): the iterations are used up
ExhaustedLate(i, steps) == i > steps
Exhausted(i, steps) == i >= steps

\* start_measure, the whole handler: the connection test, the parameters,
\* the flag cleared (ES: _cont_stop_event, CB: _stop_event), the new thread.
StartMeasure ==
    /\ UiFree
    /\ UNCHANGED <<variant, dom, tdk, amm, ammLock, wk, nSweeps, uiAt>>
    /\ UNCHANGED busVars
    /\ UNCHANGED connVars
    /\ UNCHANGED codecVars
    /\ UNCHANGED appVars
    /\ IF ~amm
         THEN /\ ui' = [IdleUi EXCEPT !.op = "start_measure",
                                      !.result = "not_connected"]
              /\ UNCHANGED <<stopEvent, stopCont, pl, nPolls>>
         ELSE \/ /\ ui' = [IdleUi EXCEPT !.op = "start_measure",
                                         !.result = "bad_params"]
                 /\ UNCHANGED <<stopEvent, stopCont, pl, nPolls>>
              \/ \E n \in dom.counts :
                   /\ \E p \in dom.pollers : ~PollRunning(p)
                   /\ nPolls < dom.polls
                   /\ nPolls' = nPolls + 1
                   /\ stopCont' = IF variant = "ES" THEN FALSE ELSE stopCont
                   /\ stopEvent' = IF variant = "ES" THEN stopEvent ELSE FALSE
                   /\ pl' = [pl EXCEPT ![FreePoller] =
                               [IdlePoll EXCEPT
                                  !.pc = "top", !.steps = n,
                                  !.flagged = (variant = "ES" /\ stopEvent)]]
                   /\ ui' = [IdleUi EXCEPT !.op = "start_measure",
                                           !.result = "started",
                                           !.started = TRUE]

\* stop_continuous_measure (ES): self._cont_stop_event.set()
StopContinuousMeasure ==
    /\ UiFree
    /\ variant = "ES"
    /\ stopCont' = TRUE
    /\ pl' = Flagged(pl)
    /\ ui' = [IdleUi EXCEPT !.op = "stop_continuous", !.result = "requested"]
    /\ UNCHANGED <<variant, dom, tdk, amm, stopEvent, ammLock, wk, nSweeps>>
    /\ UNCHANGED <<nPolls, uiAt>>
    /\ UNCHANGED busVars
    /\ UNCHANGED connVars
    /\ UNCHANGED codecVars
    /\ UNCHANGED appVars

\* The poll thread returns.
PollExit(p, why, seen) ==
    [pl EXCEPT ![p].pc = "done", ![p].exit = why, ![p].saw = seen,
               ![p].val = None, ![p].volt = None]

\* for _ in range(steps): if a flag is set: break
PollTop(p) ==
    /\ pl[p].pc = "top"
    /\ pl' = IF Exhausted(pl[p].i, pl[p].steps)
               THEN PollExit(p, "exhausted", FALSE)
             ELSE IF PollFlag
               THEN PollExit(p, "cancelled", TRUE)
             ELSE [pl EXCEPT ![p].pc = IF variant = "ES" THEN "acquire"
                                       ELSE "measure"]
    /\ UNCHANGED <<variant, dom, tdk, amm, stopEvent, ammLock, wk, nSweeps, ui>>
    /\ UNCHANGED <<stopCont, nPolls, uiAt>>
    /\ UNCHANGED busVars
    /\ UNCHANGED connVars
    /\ UNCHANGED codecVars
    /\ UNCHANGED appVars

\* with self._amm_lock: (ES)
PollAcquire(p) ==
    /\ variant = "ES" /\ pl[p].pc = "acquire"
    /\ AmmLockFree(p)
    /\ ammLock' = p
    /\ pl' = [pl EXCEPT ![p].pc = "measure"]
    /\ UNCHANGED <<variant, dom, tdk, amm, stopEvent, wk, nSweeps, ui>>
    /\ UNCHANGED <<stopCont, nPolls, uiAt>>
    /\ UNCHANGED busVars
    /\ UNCHANGED connVars
    /\ UNCHANGED codecVars
    /\ UNCHANGED appVars

\* val = self.amm.measure_current(); in ES the lock is released
PollMeasure(p) ==
    /\ pl[p].pc = "measure"
    /\ ammLock' = IF variant = "ES" THEN NoThread ELSE ammLock
    /\ \E r \in PollOutcomes(dom) :
         pl' = IF Missing(amm) THEN PollExit(p, "raised", FALSE)
               ELSE [pl EXCEPT ![p].pc = "volt", ![p].val = r,
                               ![p].nMeas = pl[p].nMeas + 1]
    /\ UNCHANGED <<variant, dom, tdk, amm, stopEvent, wk, nSweeps, ui>>
    /\ UNCHANGED <<stopCont, nPolls, uiAt>>
    /\ UNCHANGED busVars
    /\ UNCHANGED connVars
    /\ UNCHANGED codecVars
    /\ UNCHANGED appVars

\* volt = self.tdk.get_actual_voltage() if self.tdk else None
PollVolt(p) ==
    /\ pl[p].pc = "volt"
    /\ \E v \in IF tdk THEN {"volts", None} ELSE {None} :
         pl' = [pl EXCEPT ![p].pc = "emit", ![p].volt = v]
    /\ UNCHANGED <<variant, dom, tdk, amm, stopEvent, ammLock, wk, nSweeps, ui>>
    /\ UNCHANGED <<stopCont, nPolls, uiAt>>
    /\ UNCHANGED busVars
    /\ UNCHANGED connVars
    /\ UNCHANGED codecVars
    /\ UNCHANGED appVars

\* self.sig.append_data.emit((volt, val, timestamp))
PollEmit(p) ==
    /\ pl[p].pc = "emit"
    /\ pl' = [pl EXCEPT ![p].pc = "wait",
                        ![p].emitted = Append(pl[p].emitted,
                                              [v |-> pl[p].volt,
                                               i |-> pl[p].val])]
    /\ UNCHANGED <<variant, dom, tdk, amm, stopEvent, ammLock, wk, nSweeps, ui>>
    /\ UNCHANGED <<stopCont, nPolls, uiAt>>
    /\ UNCHANGED busVars
    /\ UNCHANGED connVars
    /\ UNCHANGED codecVars
    /\ UNCHANGED appVars

\* ES: if self._cont_stop_event.wait(interval) or self._stop_event.is_set():
\* break.  CB: time.sleep(interval).
PollWait(p) ==
    /\ pl[p].pc = "wait"
    /\ pl' = IF variant = "ES" /\ PollFlag
               THEN PollExit(p, "cancelled", TRUE)
               ELSE [pl EXCEPT ![p].pc = "top", ![p].i = pl[p].i + 1]
    /\ UNCHANGED <<variant, dom, tdk, amm, stopEvent, ammLock, wk, nSweeps, ui>>
    /\ UNCHANGED <<stopCont, nPolls, uiAt>>
    /\ UNCHANGED busVars
    /\ UNCHANGED connVars
    /\ UNCHANGED codecVars
    /\ UNCHANGED appVars

PollStep(p) ==
    \/ PollTop(p) \/ PollAcquire(p) \/ PollMeasure(p) \/ PollVolt(p)
    \/ PollEmit(p) \/ PollWait(p)

\* single_measure, entry: the connection test; the handler then takes the
\* measurement lock (ES) or measures at once (CB).
SingleMeasure ==
    /\ UiFree
    /\ IF ~amm
         THEN /\ ui' = [IdleUi EXCEPT !.op = "single_measure",
                                      !.result = "not_connected"]
              /\ uiAt' = uiAt
         ELSE /\ ui' = [IdleUi EXCEPT !.op = "single_measure",
                                      !.result = "running"]
              /\ uiAt' = IF variant = "ES" THEN "acquire" ELSE "measure"
    /\ UNCHANGED <<variant, dom, tdk, amm, stopEvent, ammLock, wk, nSweeps>>
    /\ UNCHANGED <<stopCont, pl, nPolls>>
    /\ UNCHANGED busVars
    /\ UNCHANGED connVars
    /\ UNCHANGED codecVars
    /\ UNCHANGED appVars

\* single_measure: with self._amm_lock: (ES; the UI thread blocks here)
SingleAcquire ==
    /\ variant = "ES" /\ uiAt = "acquire"
    /\ AmmLockFree("ui")
    /\ ammLock' = "ui"
    /\ uiAt' = "measure"
    /\ UNCHANGED <<variant, dom, tdk, amm, stopEvent, wk, nSweeps, ui>>
    /\ UNCHANGED <<stopCont, pl, nPolls>>
    /\ UNCHANGED busVars
    /\ UNCHANGED connVars
    /\ UNCHANGED codecVars
    /\ UNCHANGED appVars

\* single_measure: val = self.amm.measure_current(); the lock is released;
\* a value is emitted, None is reported as a failure.
SingleFinish ==
    /\ uiAt = "measure"
    /\ ammLock' = IF variant = "ES" THEN NoThread ELSE ammLock
    /\ uiAt' = "idle"
    /\ \E r \in PollOutcomes(dom) :
         ui' = [ui EXCEPT !.result = IF r = None THEN "failed" ELSE "emitted"]
    /\ UNCHANGED <<variant, dom, tdk, amm, stopEvent, wk, nSweeps>>
    /\ UNCHANGED <<stopCont, pl, nPolls>>
    /\ UNCHANGED busVars
    /\ UNCHANGED connVars
    /\ UNCHANGED codecVars
    /\ UNCHANGED appVars

PollNext ==
    \/ ConnectPower
    \/ ConnectAmm
    \/ StartStepAndMeasure
    \/ StopOperations
    \/ \E w \in Workers : WorkerStep(w)
    \/ StartMeasure
    \/ StopContinuousMeasure
    \/ \E p \in Pollers : PollStep(p)
    \/ SingleMeasure
    \/ SingleAcquire
    \/ SingleFinish

\* The poll alone: its handlers and its thread.
CountNext ==
    \/ ConnectPower
    \/ ConnectAmm
    \/ StopOperations
    \/ StartMeasure
    \/ StopContinuousMeasure
    \/ \E p \in Pollers : PollStep(p)

\* The same, with the devices disconnected while workers run.
DropNext ==
    \/ PollNext
    \/ DisconnectAmm
    \/ DisconnectPower

(***************************************************************************)
(* Part 2b.  Frames and responses as text (SCPI.py, TDK_Control.py,        *)
(* Ammeter_Control.py)                                                     *)
(*                                                                         *)
(* A text is a sequence of pieces: a word (characters that are neither     *)
(* white space nor digits of another piece), a space, a carriage return, a *)
(* line feed, or one byte above 127.                                       *)
(***************************************************************************)

NL == "\n"
CR == "\r"
SP == " "
\* A byte that is not ASCII (line noise).
HI == "\\xE9"
\* str.strip() and float() take these for white space.
IsSpace(c) == c \in {SP, CR, NL}

\* Longest command and longest response followed, in pieces.
MaxLen == 3

\* The texts of at most n pieces over an alphabet.
Texts(alphabet, n) == UNION {[1..k -> alphabet] : k \in 0..n}

\* What a caller can pass as a command.
Commands == Texts({"*IDN?", SP, NL}, MaxLen)

\* str.endswith('\n')
EndsWithNewline(s) == Len(s) > 0 /\ s[Len(s)] = NL

\* str.lstrip(), str.rstrip(), str.strip()
RECURSIVE LStrip(_)
LStrip(s) ==
    IF Len(s) > 0 /\ IsSpace(s[1]) THEN LStrip(Tail(s)) ELSE s
RECURSIVE RStrip(_)
RStrip(s) ==
    IF Len(s) > 0 /\ IsSpace(s[Len(s)])
      THEN RStrip(SubSeq(s, 1, Len(s) - 1)) ELSE s
StripText(s) == RStrip(LStrip(s))

\* The components that write frames.
Components == {"scpi", "tdk", "amm"}

\* The command frame a component writes for a command:
\*   SCPI.py:            if not command.endswith('\n'): command += '\n'
\*   TDK_Control.py:     full_command = f"{command}\n"
\*   Ammeter_Control.py: cmd = cmd.strip() + "\n"
FrameOf(comp, command) ==
    CASE comp = "scpi" ->
           IF EndsWithNewline(command) THEN command ELSE command \o <<NL>>
      [] comp = "tdk" -> command \o <<NL>>
      [] comp = "amm" -> StripText(command) \o <<NL>>

\* What a read, a decode or a parse gives: a string, a number (named by its
\* text), None, or an exception.
Str(t) == [kind |-> "str", text |-> t]
Num(t) == [kind |-> "float", text |-> t]
Absent == [kind |-> "none", text |-> <<>>]
Raises(e) == [kind |-> e, text |-> <<>>]

NoText ==
    [op |-> "none", comp |-> "none", cmd |-> <<>>, frame |-> <<>>,
     via |-> "none", event |-> "none", raw |-> <<>>, resp |-> Absent,
     out |-> Absent]

\* What an instrument, or line noise, can put on the transport.
IdnAnswer == "KEITHLEY,MODEL 6485"
Received ==
    Texts({IdnAnswer, "1.5E-9", "ERROR", "abc", SP, NL, HI}, MaxLen)

\* readline(), read_until(b'\n') and the picoammeter's read(1) loop stop
\* after the first line feed.
RECURSIVE Line(_)
Line(b) ==
    IF Len(b) = 0 THEN <<>>
    ELSE IF b[1] = NL THEN <<NL>>
    ELSE <<b[1]>> \o Line(Tail(b))

\* bytes.decode('ascii') raises on a byte above 127;
\* bytes.decode('ascii', errors='ignore') leaves such bytes out.
HasHigh(b) == \E i \in DOMAIN b : b[i] = HI
IsLow(c) == c # HI
DecodeAscii(b, ignore) ==
    IF ignore THEN Str(SelectSeq(b, IsLow))
    ELSE IF HasHigh(b) THEN Raises("UnicodeDecodeError")
    ELSE Str(b)

\* How a component decodes: SCPI.py strictly, the two others leaving out
\* what is not ASCII.
Ignores(comp) == comp # "scpi"

\* What a component reads of the bytes b that arrive: a line, except on a
\* socket, where recv() takes what is there.
Taken(comp, via, b) == IF comp = "scpi" /\ via = "tcp" THEN b ELSE Line(b)

\* The text a component makes of the bytes it has read: decoded, then
\* stripped; in SCPI.py an exception becomes an IOError.
StripNothing(s) == s
Stripped(s) == StripText(s)
TextOf(comp, b) ==
    LET d == DecodeAscii(b, Ignores(comp))
    IN  IF d.kind = "str" THEN Str(Stripped(d.text)) ELSE Raises("IOError")

\* A component builds the frame of the command it is given and writes it.
Encode ==
    /\ tx.op = "none"
    /\ \E comp \in Components :
         tx' = [tx EXCEPT !.op = "encode", !.comp = comp,
                          !.frame = FrameOf(comp, tx.cmd)]
    /\ UNCHANGED busVars
    /\ UNCHANGED sweepVars
    /\ UNCHANGED pollVars
    /\ UNCHANGED connVars
    /\ UNCHANGED appVars

\* What has happened when a read returns: data has arrived, or nothing
\* within the timeout.
Arrival(b) == IF Len(b) > 0 THEN "data" ELSE "timeout"

\* A serial component reads and decodes the bytes that arrive:
\*   TDK_Control.py send_command (response),
\*   Ammeter_Control.py send_command (response_str).
Decode ==
    /\ tx.op = "none"
    /\ \E comp \in {"tdk", "amm"} :
         tx' = [tx EXCEPT !.op = "decode", !.comp = comp,
                          !.via = "serial", !.event = Arrival(tx.raw),
                          !.raw = Taken(comp, "serial", tx.raw),
                          !.out = TextOf(comp, Taken(comp, "serial", tx.raw))]
    /\ UNCHANGED busVars
    /\ UNCHANGED sweepVars
    /\ UNCHANGED pollVars
    /\ UNCHANGED connVars
    /\ UNCHANGED appVars

\* except socket.timeout: return "Timeout: No response from instrument."
TimeoutText == <<"Timeout: No response from instrument.">>

\* What read_response gives when nothing arrives within the timeout:
\* readline() returns b"", recv() raises socket.timeout.
OnTimeout(via) == IF via = "serial" THEN Str(<<>>) ELSE Str(TimeoutText)

\* SCPI_Controller.read_response on a connected instrument, when the bytes
\* b arrive (none: nothing within the timeout) or the transport fails: what
\* has happened, what was read, what is returned.
ReadOf(via, fault, b) ==
    LET event == IF fault THEN "fault" ELSE Arrival(b)
        taken == IF fault THEN <<>> ELSE Taken("scpi", via, b)
    IN  [event |-> event, raw |-> taken,
         out |-> CASE event = "data" -> TextOf("scpi", taken)
                   [] event = "timeout" -> OnTimeout(via)
                   [] event = "fault" -> Raises("IOError")]

ReadResponse ==
    /\ tx.op = "none"
    /\ \E via \in {"serial", "tcp"}, fault \in BOOLEAN :
         LET r == ReadOf(via, fault, tx.raw)
         IN  tx' = [tx EXCEPT
                      !.op = "read_response", !.comp = "scpi", !.via = via,
                      !.event = r.event, !.raw = r.raw, !.out = r.out]
    /\ UNCHANGED busVars
    /\ UNCHANGED sweepVars
    /\ UNCHANGED pollVars
    /\ UNCHANGED connVars
    /\ UNCHANGED appVars

\* SCPI_Controller.query: send_command(command), then read_response().
ScpiQuery ==
    /\ tx.op = "none"
    /\ \E via \in {"serial", "tcp"} :
         LET r == ReadOf(via, FALSE, tx.raw)
         IN  tx' = [tx EXCEPT
                      !.op = "query", !.comp = "scpi", !.via = via,
                      !.frame = FrameOf("scpi", tx.cmd),
                      !.event = r.event, !.raw = r.raw, !.out = r.out]
    /\ UNCHANGED busVars
    /\ UNCHANGED sweepVars
    /\ UNCHANGED pollVars
    /\ UNCHANGED connVars
    /\ UNCHANGED appVars

\* if response_str.startswith("ERROR"): log, return None
StartsWithErrorNever(t) == FALSE
StartsWithError(t) == Len(t) > 0 /\ t[1] = "ERROR"

\* What KeithleyPicoammeter.send_command(cmd, get_response=True) returns on
\* a connected instrument when the bytes b arrive: the stripped line, None
\* for a line that begins with the error marker, None when the port raises
\* SerialException.
AmmResponse(b, fault) ==
    IF fault THEN Absent
    ELSE LET r == TextOf("amm", Line(b))
         IN  IF StartsWithError(r.text) THEN Absent ELSE r

\* float(text): white space around the number is allowed; anything else
\* raises ValueError.
FloatText(t) == StripText(t) = <<"1.5E-9">>

\* `except ValueError:` around float(response) in measure_current.
AmmCatchesValueError == TRUE

\* if response is not None: try: return float(response)
\* except ValueError: log;  return None
AmmParse(r) ==
    IF r.kind # "str" THEN Absent
    ELSE IF FloatText(r.text) THEN Num(StripText(r.text))
    ELSE IF AmmCatchesValueError THEN Absent
    ELSE Raises("ValueError")

\* KeithleyPicoammeter.measure_current: READ? is sent, the response read
\* and parsed.
MeasureCurrent ==
    /\ tx.op = "none"
    /\ \E fault \in BOOLEAN :
         LET r == AmmResponse(tx.raw, fault)
         IN  tx' = [tx EXCEPT
                      !.op = "measure_current", !.comp = "amm",
                      !.via = "serial",
                      !.event = IF fault THEN "fault" ELSE Arrival(tx.raw),
                      !.raw = IF fault THEN <<>> ELSE Line(tx.raw),
                      !.resp = r,
                      !.out = AmmParse(r)]
    /\ UNCHANGED busVars
    /\ UNCHANGED sweepVars
    /\ UNCHANGED pollVars
    /\ UNCHANGED connVars
    /\ UNCHANGED appVars

CodecNext ==
    \/ Encode
    \/ MeasureCurrent
    \/ Decode
    \/ ReadResponse
    \/ ScpiQuery

(***************************************************************************)
(* Part 2c.  The picoammeter object (Ammeter_Control.py)                   *)
(***************************************************************************)

\* KeithleyPicoammeter.__init__: no serial object, not connected, no range;
\* with the last operation called on the object, its argument, the bytes
\* that arrived, whether the port raised SerialException, and what the
\* operation returned ("raised:<exception>" when it raised).
NoMeter ==
    [serial |-> "none", connected |-> FALSE, range |-> "none",
     op |-> "none", arg |-> "none", raw |-> <<>>, fault |-> FALSE,
     was |-> FALSE, out |-> "none"]

\* MEASURE_RANGES, and a value outside it.
MeasureRanges ==
    {"2e-9", "2e-8", "2e-7", "2e-6", "2e-5", "2e-4", "2e-3", "2.1e-2"}
RangeArgs == {"2e-9", "2.1e-2", "1e-9"}

\* model.value (InstrumentModel.MODEL_6485) in idn
ModelIn(t) == \E i \in DOMAIN t : t[i] = IdnAnswer

\* What send_command(cmd, get_response) returns on meter m: None when not
\* connected, None when the port raises SerialException, the response when
\* one is asked for, and None at the end of the try block otherwise.
KmSendCommand(m, get, b, fault) ==
    IF ~m.connected \/ m.serial = "none" THEN Absent
    ELSE IF get THEN AmmResponse(b, fault)
    ELSE Absent

\* result is not None -> True, else False
KmOk(r) == IF r.kind # "none" THEN "True" ELSE "False"

\* KeithleyPicoammeter.disconnect on meter m
KmDisconnected(m) ==
    [m EXCEPT !.serial = IF m.serial = "open" THEN "closed" ELSE m.serial,
              !.connected = FALSE]

\* connect_amm: a new KeithleyPicoammeter, then connect(): the port is
\* opened (SerialException -> False), *RST is sent, the identity is read
\* and searched for the model string; a mismatch disconnects.
KmConnect ==
    /\ \E opens \in BOOLEAN, fault \in BOOLEAN :
         LET b == dom.idn
             m == [NoMeter EXCEPT !.op = "connect", !.fault = fault]
             o == [m EXCEPT !.serial = "open", !.connected = TRUE,
                            !.raw = IF fault THEN <<>> ELSE Line(b)]
             idn == KmSendCommand(o, TRUE, b, fault)
         IN  km' = IF ~opens THEN [m EXCEPT !.out = "False", !.arg = "busy"]
                   ELSE IF idn.kind = "none"
                     THEN [o EXCEPT !.out = "raised:TypeError"]
                   ELSE IF ModelIn(idn.text) THEN [o EXCEPT !.out = "True"]
                   ELSE [KmDisconnected(o) EXCEPT !.out = "False"]
    /\ UNCHANGED <<scpi, rf, disp>>
    /\ UNCHANGED busVars
    /\ UNCHANGED sweepVars
    /\ UNCHANGED pollVars
    /\ UNCHANGED connVars
    /\ UNCHANGED codecVars

\* reset, set_current_range, set_auto_range, set_zero_check and
\* set_zero_correct: the command is sent with get_response left False, and
\* `result is not None` decides what is returned.
KmSetters ==
    {"reset", "set_current_range", "set_auto_range", "set_zero_check",
     "set_zero_correct"}
KmSet ==
    /\ \E op \in KmSetters, fault \in BOOLEAN,
          arg \in RangeArgs :
         LET r == KmSendCommand(km, FALSE, <<>>, fault)
             m == [km EXCEPT !.op = op, !.fault = fault, !.raw = <<>>,
                             !.was = km.connected,
                             !.arg = IF op = "set_current_range"
                                       THEN arg ELSE "none"]
         IN  /\ op # "set_current_range" => arg = "2e-9"
             /\ km' = IF op = "set_current_range" /\ arg \notin MeasureRanges
                        THEN [m EXCEPT !.out = "False"]
                      ELSE IF op = "set_current_range" /\ r.kind # "none"
                        THEN [m EXCEPT !.out = "True", !.range = arg]
                      ELSE [m EXCEPT !.out = KmOk(r)]
    /\ UNCHANGED <<scpi, rf, disp>>
    /\ UNCHANGED busVars
    /\ UNCHANGED sweepVars
    /\ UNCHANGED pollVars
    /\ UNCHANGED connVars
    /\ UNCHANGED codecVars

\* disconnect_amm: self.amm.disconnect()
KmDisconnect ==
    /\ km.serial # "none"
    /\ km' = [KmDisconnected(km) EXCEPT
                !.op = "disconnect", !.out = "none", !.raw = <<>>,
                !.arg = "none", !.fault = FALSE, !.was = km.connected]
    /\ UNCHANGED <<scpi, rf, disp>>
    /\ UNCHANGED busVars
    /\ UNCHANGED sweepVars
    /\ UNCHANGED pollVars
    /\ UNCHANGED connVars
    /\ UNCHANGED codecVars

MeterNext ==
    \/ KmConnect
    \/ KmSet
    \/ KmDisconnect

(***************************************************************************)
(* Part 2d.  The SCPI controller's connection (SCPI.py)                    *)
(***************************************************************************)

\* Handles (serial objects, connected sockets) a behaviour may open.
MaxHandles == 3

\* SCPI_Controller.__init__: instrument and connection_type are None.
\* handles are the transports opened so far, instrument the index of the
\* one held (0 for None); with the last call, whether it succeeded, and the
\* attempts it made to open a transport.
NoController ==
    [instrument |-> 0, connection_type |-> "none", handles |-> <<>>,
     op |-> "none", ok |-> TRUE, attempts |-> 0]

\* connect_serial / connect_tcp: the transport is opened and stored with
\* its type; on any exception instrument is set to None.
ScpiConnected(c, kind, opens) ==
    IF opens
      THEN [c EXCEPT
              !.handles = Append(c.handles, [kind |-> kind, open |-> TRUE]),
              !.instrument = Len(c.handles) + 1,
              !.connection_type = kind,
              !.op = "connect_" \o kind, !.ok = TRUE, !.attempts = 1]
      ELSE [c EXCEPT
              !.instrument = 0,
              !.op = "connect_" \o kind, !.ok = FALSE, !.attempts = 1]

ScpiConnectSerial ==
    /\ Len(scpi.handles) < MaxHandles
    /\ \E opens \in BOOLEAN : scpi' = ScpiConnected(scpi, "serial", opens)
    /\ UNCHANGED <<km, rf, disp>>
    /\ UNCHANGED busVars
    /\ UNCHANGED sweepVars
    /\ UNCHANGED pollVars
    /\ UNCHANGED connVars
    /\ UNCHANGED codecVars

ScpiConnectTcp ==
    /\ Len(scpi.handles) < MaxHandles
    /\ \E opens \in BOOLEAN : scpi' = ScpiConnected(scpi, "tcp", opens)
    /\ UNCHANGED <<km, rf, disp>>
    /\ UNCHANGED busVars
    /\ UNCHANGED sweepVars
    /\ UNCHANGED pollVars
    /\ UNCHANGED connVars
    /\ UNCHANGED codecVars

\* disconnect: if self.instrument: close it, forget it and its type.
ScpiDisconnect ==
    /\ scpi' =
         IF scpi.instrument # 0
           THEN [scpi EXCEPT
                   !.handles[scpi.instrument].open = FALSE,
                   !.instrument = 0, !.connection_type = "none",
                   !.op = "disconnect", !.ok = TRUE, !.attempts = 0]
           ELSE [scpi EXCEPT !.op = "disconnect", !.ok = FALSE,
                             !.attempts = 0]
    /\ UNCHANGED <<km, rf, disp>>
    /\ UNCHANGED busVars
    /\ UNCHANGED sweepVars
    /\ UNCHANGED pollVars
    /\ UNCHANGED connVars
    /\ UNCHANGED codecVars

ControllerNext ==
    \/ ScpiConnectSerial
    \/ ScpiConnectTcp
    \/ ScpiDisconnect

(***************************************************************************)
(* Part 2e.  The RF control window and its PowerThreads                    *)
(* (SIMS-RF-Control.py)                                                    *)
(***************************************************************************)

\* PowerThread objects a behaviour may create, rounds of a polling loop,
\* and serial objects the window may open.
MaxRuns == 2
MaxRounds == 1
MaxOpens == 1

\* The two PowerWidgets, and the name each was constructed with:
\* "RF" stands for the left widget's name, "Plasma" for the right one's.
Widgets == {"left", "right"}
WidgetName(w) == IF w = "left" THEN "RF" ELSE "Plasma"
\* The names the set signals are connected with: lambda v, i:
\* self._on_set('电源1', v, i) for the left widget, '电源2' for the right.
SetKey(w) == IF w = "left" THEN "P1" ELSE "P2"
Keys == {"RF", "Plasma", "P1", "P2"}

\* widget = self.left_widget if name == '电源1' else self.right_widget
WidgetOf(name) == IF name = "P1" THEN "left" ELSE "right"

\* if name == '射频电源': left_widget.update_outputs
\* elif name == '等离子体电源': right_widget.update_outputs
DisplayOf(name) ==
    IF name = "RF" THEN "left" ELSE IF name = "Plasma" THEN "right"
    ELSE "none"

\* MainWindow.__init__: no serial object, no proxies, no threads.  gen
\* counts the serial objects opened, open says that shared_serial is open,
\* supply which widgets hold a proxy, threads is the dict self.threads (0:
\* no entry), th the PowerThread objects created, wire the commands
\* PowerThreads' proxies have written, ui the handler the UI thread is in.
IdleRfUi ==
    [pc |-> "idle", op |-> "none", w |-> "none", t |-> 0,
     result |-> "none"]
NoApp ==
    [gen |-> 0, open |-> FALSE,
     supply |-> [w \in Widgets |-> FALSE],
     threads |-> [n \in Keys |-> 0],
     th |-> <<>>, wire |-> <<>>, ui |-> IdleRfUi]

\* PowerThread.__init__, then start(): run has not begun.
NewThread(name, widget) ==
    [name |-> name, widget |-> widget, pc |-> "new", running |-> FALSE,
     paused |-> FALSE, ps |-> "none", gen |-> 0, rounds |-> 0,
     stopped |-> FALSE, late |-> FALSE, faulted |-> FALSE,
     shown |-> "none", sets |-> 0]

\* send_command of the proxy thread k holds writes the command when the
\* proxy's serial object is open and the write does not raise; otherwise it
\* returns None and the caller goes on.
RfSent(r, k, cmd, by, fault) ==
    LET t == r.th[k]
        can == r.open /\ t.ps # "none" /\ t.gen = r.gen
    IN  IF can /\ ~fault
          THEN [r EXCEPT !.wire = IF dom.trace
                                    THEN Append(@, [cmd |-> cmd, th |-> k,
                                                    addr |-> t.ps, by |-> by])
                                  ELSE @]
        ELSE IF can THEN [r EXCEPT !.th[k].faulted = TRUE]
        ELSE r

RfUnchanged ==
    /\ UNCHANGED <<km, scpi, disp>>
    /\ UNCHANGED busVars
    /\ UNCHANGED sweepVars
    /\ UNCHANGED pollVars
    /\ UNCHANGED connVars
    /\ UNCHANGED codecVars

\* run, up to the reset: _running = True; without a proxy on the widget the
\* thread returns; the proxy is taken over; connect() tests is_open, and
\* get_id is sent.
RunBegin(k) ==
    /\ rf.th[k].pc = "new"
    /\ \E fault \in dom.faults :
         LET t == rf.th[k]
             r1 == [rf EXCEPT !.th[k].running = TRUE]
         IN  rf' =
               IF ~rf.supply[t.widget]
                 THEN [r1 EXCEPT !.th[k].pc = "done"]
               ELSE IF ~rf.open
                 THEN [r1 EXCEPT !.th[k].pc = "done",
                                 !.th[k].ps = t.widget, !.th[k].gen = rf.gen]
               ELSE [RfSent([r1 EXCEPT !.th[k].ps = t.widget,
                                       !.th[k].gen = rf.gen],
                            k, "*IDN?", "run", fault)
                       EXCEPT !.th[k].pc = "reset"]
    /\ RfUnchanged

\* reset(); set_voltage(target); set_current(target); set_output(True):
\* none of them raises, so each is followed by the next.
RunCommand(k, at, cmd, next) ==
    /\ rf.th[k].pc = at
    /\ \E fault \in dom.faults :
         rf' = [RfSent(rf, k, cmd, "run", fault) EXCEPT !.th[k].pc = next]
    /\ RfUnchanged

RunReset(k) == RunCommand(k, "reset", "*RST", "volt")
RunVolt(k) == RunCommand(k, "volt", "VOLT:AMPL", "curr")
RunCurr(k) == RunCommand(k, "curr", "CURR:AMPL", "on")
RunOutputOn(k) == RunCommand(k, "on", "OUTP:STAT 1", "loop")

\* while self._running:
RunLoop(k) ==
    /\ rf.th[k].pc = "loop"
    /\ ~rf.th[k].running \/ rf.th[k].rounds < MaxRounds
    /\ rf' = [rf EXCEPT !.th[k].pc =
                IF rf.th[k].running THEN "check" ELSE "off"]
    /\ RfUnchanged

\* if self._power_supply and not self._reading_paused:
RunCheck(k) ==
    /\ rf.th[k].pc = "check"
    /\ rf' = [rf EXCEPT !.th[k].pc =
                IF rf.th[k].ps # "none" /\ ~rf.th[k].paused
                  THEN "measV" ELSE "emit"]
    /\ RfUnchanged

RunMeasVolt(k) == RunCommand(k, "measV", "MEAS:VOLT?", "measC")
RunMeasCurr(k) == RunCommand(k, "measC", "MEAS:CURR?", "emit")

\* data_signal.emit(..., self.name), received by _on_data; msleep
RunEmit(k) ==
    /\ rf.th[k].pc = "emit"
    /\ rf' = [rf EXCEPT !.th[k].pc = "loop",
                        !.th[k].rounds = @ + 1,
                        !.th[k].shown = DisplayOf(rf.th[k].name)]
    /\ RfUnchanged

\* after the loop: set_output(False); disconnect(); _power_supply = None
RunOutputOff(k) ==
    /\ rf.th[k].pc = "off"
    /\ \E fault \in dom.faults :
         rf' = IF rf.th[k].ps = "none"
                 THEN [rf EXCEPT !.th[k].pc = "done"]
               ELSE [RfSent(rf, k, "OUTP:STAT 0", "run", fault)
                       EXCEPT !.th[k].pc = "done", !.th[k].ps = "none"]
    /\ RfUnchanged

RunStep(k) ==
    \/ RunBegin(k) \/ RunReset(k) \/ RunVolt(k) \/ RunCurr(k)
    \/ RunOutputOn(k) \/ RunLoop(k) \/ RunCheck(k) \/ RunMeasVolt(k)
    \/ RunMeasCurr(k) \/ RunEmit(k) \/ RunOutputOff(k)

\* toggle_connection with no open port: the port is opened and each widget
\* makes its proxy, which it keeps when test_communication succeeds.
RfConnect ==
    /\ rf.ui.pc = "idle" /\ ~rf.open
    /\ \E opens \in BOOLEAN, ok \in [Widgets -> BOOLEAN] :
         rf' = IF opens /\ rf.gen < MaxOpens
                 THEN [rf EXCEPT !.gen = @ + 1, !.open = TRUE, !.supply = ok,
                                 !.ui = [IdleRfUi EXCEPT !.op = "connect",
                                                         !.result = "opened"]]
               ELSE [rf EXCEPT !.ui = [IdleRfUi EXCEPT !.op = "connect",
                                                       !.result = "failed"]]
    /\ RfUnchanged

\* PowerWidget.start_request(True) -> MainWindow.power_start_stop(name,
\* True), name being the widget's own name.
StartRequest(w) ==
    /\ rf.ui.pc = "idle"
    /\ rf.threads[WidgetName(w)] = 0
    /\ Len(rf.th) < dom.runs
    /\ LET name == WidgetName(w)
           widget == WidgetOf(name)
           u == [IdleRfUi EXCEPT !.op = "start", !.w = w]
       IN  rf' =
             IF ~rf.supply[w] \/ ~rf.supply[widget]
               THEN [rf EXCEPT !.ui = [u EXCEPT !.result = "not_connected"]]
             ELSE [rf EXCEPT
                     !.th = Append(@, NewThread(name, widget)),
                     !.threads[name] = Len(rf.th) + 1,
                     !.ui = [u EXCEPT !.result = "started",
                                      !.t = Len(rf.th) + 1]]
    /\ RfUnchanged

\* th.stop(): self._running = False; the UI thread then waits.
RfStopping(r, name, op) ==
    [r EXCEPT !.th[r.threads[name]].running = FALSE,
              !.th[r.threads[name]].stopped = TRUE,
              !.ui = [IdleRfUi EXCEPT !.pc = "wait", !.op = op,
                                      !.w = name, !.t = r.threads[name]]]

\* self.shared_serial.close(); both widgets drop their proxies.
RfClosed(r) ==
    [r EXCEPT !.open = FALSE, !.supply = [w \in Widgets |-> FALSE],
              !.ui = [IdleRfUi EXCEPT !.op = "toggle", !.result = "closed"]]

\* PowerWidget.start_request(False) -> power_start_stop(name, False)
StopRequest(w) ==
    /\ rf.ui.pc = "idle"
    /\ rf.threads[WidgetName(w)] # 0
    /\ rf' = RfStopping(rf, WidgetName(w), "stop")
    /\ RfUnchanged

\* toggle_connection with the port open: every thread of self.threads is
\* stopped, then the port is closed.
RfDisconnect ==
    /\ rf.ui.pc = "idle" /\ rf.open
    /\ IF \E n \in Keys : rf.threads[n] # 0
         THEN \E n \in Keys :
                /\ rf.threads[n] # 0
                /\ rf' = RfStopping(rf, n, "toggle")
         ELSE rf' = RfClosed(rf)
    /\ RfUnchanged

\* self.wait(2000) returns: the thread has finished, or 2000 ms have passed
\* while it was still running.  The dict entry is deleted; toggle_connection
\* goes on with the next thread, then closes the port.
WaitReturns ==
    /\ rf.ui.pc = "wait"
    /\ LET k == rf.ui.t
           r1 == [rf EXCEPT !.threads[rf.ui.w] = 0,
                            !.th[k].late = (rf.th[k].pc # "done")]
       IN  rf' =
             IF rf.ui.op = "stop"
               THEN [r1 EXCEPT !.ui = [IdleRfUi EXCEPT !.op = "stop",
                                                       !.result = "stopped"]]
             ELSE IF \E n \in Keys : r1.threads[n] # 0
               THEN RfStopping(r1, CHOOSE n \in Keys : r1.threads[n] # 0,
                               "toggle")
             ELSE RfClosed(r1)
    /\ RfUnchanged

\* PowerWidget._on_set -> set_targets_signal -> MainWindow._on_set(key):
\* the thread is looked up in self.threads under the key of the lambda.
OnSet(w) ==
    /\ rf.ui.pc = "idle"
    /\ LET key == SetKey(w)
           u == [IdleRfUi EXCEPT !.op = "on_set", !.w = w]
       IN  rf' =
             IF ~rf.supply[w] \/ ~rf.supply[WidgetOf(key)]
               THEN [rf EXCEPT !.ui = [u EXCEPT !.result = "not_connected"]]
             ELSE IF rf.threads[key] = 0
               THEN [rf EXCEPT !.ui = [u EXCEPT !.result = "not_started"]]
             ELSE [rf EXCEPT !.ui = [u EXCEPT !.pc = "targets",
                                              !.t = rf.threads[key]]]
    /\ RfUnchanged

\* PowerThread.set_targets called on thread k (from the UI thread): the
\* targets are stored; with a proxy, reading is paused.
SetTargets(k) ==
    /\ \/ rf.ui.pc = "idle" /\ rf.th[k].sets < 1
       \/ rf.ui.pc = "targets" /\ rf.ui.t = k
    /\ rf' = [rf EXCEPT
                !.th[k].sets = 1,
                !.th[k].paused = (rf.th[k].ps # "none"),
                !.ui = IF rf.th[k].ps # "none"
                         THEN [IdleRfUi EXCEPT !.pc = "setV",
                                               !.op = "set_targets", !.t = k]
                       ELSE [IdleRfUi EXCEPT !.op = "set_targets", !.t = k,
                                             !.result = "stored"]]
    /\ RfUnchanged

\* voltage_success = self._power_supply.set_voltage(voltage)
SetVolt ==
    /\ rf.ui.pc = "setV"
    /\ \E fault \in dom.faults :
         rf' = [RfSent(rf, rf.ui.t, "VOLT:AMPL", "set", fault)
                  EXCEPT !.ui.pc = "setC"]
    /\ RfUnchanged

\* current_success = self._power_supply.set_current(current);
\* self._reading_paused = False
SetCurr ==
    /\ rf.ui.pc = "setC"
    /\ \E fault \in dom.faults :
         rf' = [RfSent(rf, rf.ui.t, "CURR:AMPL", "set", fault)
                  EXCEPT !.th[rf.ui.t].paused = FALSE,
                         !.ui = [IdleRfUi EXCEPT !.op = "set_targets",
                                                 !.t = rf.ui.t,
                                                 !.result = "sent"]]
    /\ RfUnchanged

RfNext ==
    \/ RfConnect
    \/ RfDisconnect
    \/ WaitReturns
    \/ \E w \in dom.widgets : StartRequest(w)
    \/ \E w \in dom.widgets : StopRequest(w)
    \/ \E w \in dom.widgets : OnSet(w)
    \/ \E k \in DOMAIN rf.th : SetTargets(k)
    \/ SetVolt
    \/ SetCurr
    \/ \E k \in DOMAIN rf.th : RunStep(k)

(***************************************************************************)
(* Part 2f.  The display update of the energy-spread window                *)
(* (main_windows.py, _schedule_display_update)                             *)
(***************************************************************************)

\* The supplies the display shows, in the order they are read, and the
\* threads that can run _update_power_displays_background.
Shown == <<"pwr", "lens", "fcup">>
DispWorkers == {"d1", "d2"}

IdleDisp == [pc |-> 0, data |-> {}, raised |-> FALSE]

\* MainWindow.__init__: _updating_display is False, no supply is connected,
\* no update thread runs.  tick is what the last timer tick found and did.
NoDisplay ==
    [updating |-> FALSE,
     has |-> [x \in {"pwr", "lens", "fcup"} |-> FALSE],
     wk |-> [d \in DispWorkers |-> IdleDisp],
     tick |-> [was |-> FALSE, started |-> FALSE]]

DispUnchanged ==
    /\ UNCHANGED <<km, scpi, rf>>
    /\ UNCHANGED busVars
    /\ UNCHANGED sweepVars
    /\ UNCHANGED pollVars
    /\ UNCHANGED connVars
    /\ UNCHANGED codecVars

\* A supply is connected or disconnected by its handler: self.tdk,
\* self.tdk_lens or self.tdk_fcup is set or becomes None.
DispHandle ==
    /\ \E x \in {"pwr", "lens", "fcup"} :
         disp' = [disp EXCEPT !.has[x] = ~@]
    /\ DispUnchanged

\* if self._updating_display: return
TickSkipsNever(flag) == FALSE
TickSkips(flag) == flag

\* _schedule_display_update, on a timer tick: with the flag set nothing is
\* done; otherwise the flag is set and a thread is started.
ScheduleDisplayUpdate ==
    /\ \E d \in DispWorkers :
         /\ disp.wk[d].pc = 0
         /\ disp' =
              IF TickSkips(disp.updating)
                THEN [disp EXCEPT !.tick = [was |-> disp.updating,
                                            started |-> FALSE]]
              ELSE [disp EXCEPT
                      !.updating = TRUE,
                      !.wk[d] = [IdleDisp EXCEPT !.pc = 1],
                      !.tick = [was |-> disp.updating, started |-> TRUE]]
    /\ DispUnchanged

\* One of the three try blocks of the update thread: if the supply is
\* set, its voltage and current are read; both read, they are kept; an
\* exception (of a read, or of a supply that became None meanwhile) is
\* passed over.
DispRead(d) ==
    /\ disp.wk[d].pc \in DOMAIN Shown
    /\ LET x == Shown[disp.wk[d].pc]
       IN  \E r \in IF disp.has[x] THEN {"both", "none", "raised"}
                    ELSE {"none"} :
             disp' = [disp EXCEPT
                        !.wk[d].pc = @ + 1,
                        !.wk[d].data = IF r = "both" THEN @ \cup {x} ELSE @,
                        !.wk[d].raised = @ \/ r = "raised"]
    /\ DispUnchanged

\* if data: self.sig.update_display.emit(data)
\* self._updating_display = False; the thread ends.
DispFinish(d) ==
    /\ disp.wk[d].pc = Len(Shown) + 1
    /\ disp' = [disp EXCEPT !.updating = FALSE, !.wk[d].pc = 0]
    /\ DispUnchanged

DispStep(d) == DispRead(d) \/ DispFinish(d)

DisplayNext ==
    \/ DispHandle
    \/ ScheduleDisplayUpdate
    \/ \E d \in DispWorkers : DispRead(d)
    \/ \E d \in DispWorkers : DispFinish(d)

\* The instrument objects and the RF control window, when they are not
\* followed.
AppIdle ==
    /\ km = NoMeter
    /\ scpi = NoController
    /\ rf = NoApp
    /\ disp = NoDisplay

\* The bus part, when only the main window is followed.
BusIdle ==
    /\ BusInit

\* The main-window part, when only the bus is followed: d.proxies are the
\* proxies that exist.
WindowIdleAt(d, t) ==
    /\ variant = "ES"
    /\ dom = d
    /\ tdk = FALSE /\ amm = FALSE
    /\ stopEvent = FALSE
    /\ ammLock = NoThread
    /\ wk = [w \in Workers |-> IdleWorker]
    /\ nSweeps = 0
    /\ ui = IdleUi
    /\ stopCont = FALSE
    /\ pl = [p \in Pollers |-> IdlePoll]
    /\ nPolls = 0
    /\ uiAt = "idle"
    /\ sers = <<>>
    /\ on = NoSerials
    /\ tx = t
    /\ AppIdle

WindowIdleWith(d) == WindowIdleAt(d, NoText)

\* The proxies on the shared port.
SharedPort ==
    [proxies |-> {"tdk", "tdk_lens"}, raws |-> {"data\n"}, ops |-> Ops,
     trace |-> TRUE]
WindowIdle == WindowIdleWith(SharedPort)

\* Only the bus is followed.
BusOnlyInit ==
    /\ BusInit
    /\ WindowIdle

\* The same with the suppressor supply on its own port.
PortsInit ==
    /\ BusInit
    /\ WindowIdleWith([proxies |-> Proxies, raws |-> {"data\n"},
                       ops |-> Ops, trace |-> TRUE])

PortsSpec == PortsInit /\ [][BusNext]_vars

BusSpec == BusOnlyInit /\ [][BusNext]_vars

\* send_command on one proxy, with every response the device can send.
ReplyInit ==
    /\ BusInit
    /\ WindowIdleWith([proxies |-> {"tdk"}, raws |-> Raws, ops |-> Ops,
                       trace |-> TRUE])

ReplySpec == ReplyInit /\ [][BusNext]_vars

\* The derived operations, called from two threads on the two proxies of
\* the shared port.
DerivedOps == Ops \ {"send_command"}
OpInit ==
    /\ BusInit
    /\ WindowIdleWith([proxies |-> {"tdk", "tdk_lens"}, raws |-> {"data\n"},
                       ops |-> DerivedOps, trace |-> FALSE])

OpSpec == OpInit /\ [][OpNext]_vars

\* The numeric getters on one proxy, beside the sweep's set_voltage, with
\* every response the device can send.
Getters == {"get_actual_voltage", "get_actual_current"}
GetterInit ==
    /\ BusInit
    /\ WindowIdleWith([proxies |-> {"tdk"}, raws |-> Raws,
                       ops |-> Getters \cup {"set_voltage"},
                       trace |-> FALSE])

GetterSpec == GetterInit /\ [][OpNext]_vars

SweepInitWith(d) ==
    /\ BusIdle
    /\ variant \in {"ES", "CB"}
    /\ dom = d
    /\ tdk = FALSE /\ amm = FALSE
    /\ stopEvent = FALSE
    /\ ammLock = NoThread
    /\ wk = [w \in Workers |-> IdleWorker]
    /\ nSweeps = 0
    /\ ui = IdleUi
    /\ stopCont = FALSE
    /\ pl = [p \in Pollers |-> IdlePoll]
    /\ nPolls = 0
    /\ uiAt = "idle"
    /\ sers = <<>>
    /\ on = NoSerials
    /\ tx = NoText
    /\ AppIdle

\* One worker thread, every measurement succeeds.
SweepInit ==
    SweepInitWith([threads |-> {"w1"}, starts |-> 0..MaxVolt,
                   stops |-> 0..MaxVolt, steps |-> (0 - MaxStep)..MaxStep,
                   sweeps |-> MaxSweeps, log |-> MaxVolt + LogRoom,
                   fail |-> FALSE])

\* One worker thread, measurements may fail.
RetryInit ==
    SweepInitWith([threads |-> {"w1"}, starts |-> 0..SmallVolt,
                   stops |-> 0..SmallVolt, steps |-> (0 - SmallStep)..SmallStep,
                   sweeps |-> MaxSweeps, log |-> SmallVolt + LogRoom,
                   fail |-> TRUE])

\* Two worker threads.
RaceInit ==
    SweepInitWith([threads |-> Workers, starts |-> {0},
                   stops |-> {0, RaceVolt}, steps |-> {0 - RaceStep, RaceStep},
                   sweeps |-> RaceSweeps, log |-> RaceVolt + LogRoom,
                   fail |-> FALSE])

SweepSpec == SweepInit /\ [][SweepNext]_vars

RetrySpec == RetryInit /\ [][SweepNext]_vars

RaceSpec == RaceInit /\ [][SweepNext]_vars

\* One worker thread, every measurement succeeds, small parameters.
FairInit ==
    SweepInitWith([threads |-> {"w1"}, starts |-> 0..SmallVolt,
                   stops |-> 0..SmallVolt, steps |-> (0 - SmallStep)..SmallStep,
                   sweeps |-> MaxSweeps, log |-> SmallVolt + LogRoom,
                   fail |-> FALSE])

\* One sweep thread, one poll thread and the manual measurement; every
\* measurement succeeds.
PollInit ==
    SweepInitWith([threads |-> {"w1"}, starts |-> {0}, stops |-> {PollVolts},
                   steps |-> {1}, sweeps |-> MaxSweeps,
                   log |-> PollVolts + LogRoom, fail |-> FALSE,
                   pollFail |-> FALSE, pollers |-> {"p1"}, counts |-> {MaxCount},
                   polls |-> MaxPolls])

\* One poll thread of any sample count; its measurements may fail.
CountInit ==
    SweepInitWith([threads |-> {"w1"}, starts |-> {0}, stops |-> {PollVolts},
                   steps |-> {1}, sweeps |-> MaxSweeps,
                   log |-> PollVolts + LogRoom, fail |-> FALSE,
                   pollFail |-> TRUE, pollers |-> {"p1"}, counts |-> 0..MaxCount,
                   polls |-> MaxPolls])

CountSpec == CountInit /\ [][CountNext]_vars

PollSpec == PollInit /\ [][PollNext]_vars

\* One sweep thread and one poll thread, every measurement succeeds, the
\* devices may be disconnected at any time.
DropInit ==
    SweepInitWith([threads |-> {"w1"}, starts |-> {0}, stops |-> {PollVolts},
                   steps |-> {1}, sweeps |-> MaxSweeps,
                   log |-> PollVolts + LogRoom, fail |-> FALSE,
                   pollFail |-> FALSE, pollers |-> {"p1"}, counts |-> {MaxCount},
                   polls |-> MaxPolls])

DropSpec == DropInit /\ [][DropNext]_vars

\* The energy-spread window, its supplies connected and disconnected in any
\* order on the shared port (typed in either case) and on another port.
ConnInit ==
    /\ BusInit
    /\ WindowIdleWith([ports |-> {"COM21", "com21", "COM5"},
                       reconnect |-> TRUE])

ConnSpec == ConnInit /\ [][ConnNext]_vars

\* The scheduler runs every live worker thread.
FairSweepSpec ==
    /\ FairInit
    /\ [][SweepNext]_vars
    /\ \A w \in Workers : WF_vars(WorkerStep(w))


\* The threads of the energy-spread window together: two threads calling
\* the operations of a proxy while a poll thread and the manual measurement
\* share the picoammeter.
LockNext ==
    \/ \E t \in BusThreads : OpCall(t)
    \/ \E t \in BusThreads : OpStep(t)
    \/ ConnectAmm
    \/ StartMeasure
    \/ \E p \in Pollers : PollStep(p)
    \/ SingleMeasure
    \/ SingleAcquire
    \/ SingleFinish

LockInit ==
    /\ BusInit
    /\ WindowIdleWith([proxies |-> {"tdk"}, raws |-> {"data\n"},
                       ops |-> {"set_voltage", "get_actual_voltage"},
                       trace |-> FALSE, pollFail |-> FALSE,
                       pollers |-> {"p1"}, counts |-> {1},
                       polls |-> MaxPolls])

\* Every transport call returns, the scheduler runs every live thread, and
\* a thread blocked at a lock that is released again and again gets it at
\* last.
LockSpec ==
    /\ LockInit
    /\ [][LockNext]_vars
    /\ \A t \in BusThreads : SF_vars(OpStep(t))
    /\ \A p \in Pollers : SF_vars(PollStep(p))
    /\ SF_vars(SingleAcquire \/ SingleFinish)

\* A command to be written, or the bytes about to arrive in answer to
\* *IDN?.
Inputs ==
    {[NoText EXCEPT !.cmd = c] : c \in Commands}
      \cup {[NoText EXCEPT !.cmd = <<"*IDN?">>, !.raw = b] : b \in Received}

CodecInit ==
    /\ BusInit
    /\ \E t \in Inputs : WindowIdleAt([trace |-> FALSE], t)

CodecSpec == CodecInit /\ [][CodecNext]_vars

\* One picoammeter object, as the main windows use it; idn is what the
\* instrument answers to *IDN?.
MeterInit ==
    /\ BusInit
    /\ \E b \in Received : WindowIdleWith([trace |-> FALSE, idn |-> b])

MeterSpec == MeterInit /\ [][MeterNext]_vars

\* One SCPI controller, connected and disconnected in any order.
ControllerInit ==
    /\ BusInit
    /\ WindowIdleWith([trace |-> FALSE])

ControllerSpec == ControllerInit /\ [][ControllerNext]_vars

\* The RF control window with one PowerThread, whose commands are recorded;
\* a write may raise.
RunInit ==
    /\ BusInit
    /\ WindowIdleWith([trace |-> TRUE, widgets |-> {"right"}, runs |-> 1,
                       faults |-> BOOLEAN])

RunSpec == RunInit /\ [][RfNext]_vars

\* The RF control window with both widgets and their threads; the commands
\* are not recorded and no write raises.
BindInit ==
    /\ BusInit
    /\ WindowIdleWith([trace |-> FALSE, widgets |-> Widgets,
                       runs |-> MaxRuns, faults |-> {FALSE}])

BindSpec == BindInit /\ [][RfNext]_vars

\* The display update of the energy-spread window; the scheduler runs the
\* update thread.
DisplayInit ==
    /\ BusInit
    /\ WindowIdleWith([trace |-> FALSE])

DisplaySpec ==
    /\ DisplayInit
    /\ [][DisplayNext]_vars
    /\ \A d \in DispWorkers : WF_vars(DispStep(d))

(***************************************************************************)
(* Part 3.  Properties                                                     *)
(***************************************************************************)

Rank(k) ==
    CASE k = "flushIn" -> 1 [] k = "flushOut" -> 2 [] k = "sel" -> 3
      [] k = "cmd" -> 4 [] k = "read" -> 5

InSend(t) ==
    sc[t].pc \in {"flushIn", "flushOut", "select", "command", "read", "unlock"}

\* C1: for any interleaving of threads calling send_command on proxies that
\* share the transport, the select frame and the command frame of a send
\* are adjacent on the transport, and nothing written or flushed by another
\* send falls between two observations of one send.
C1_PairsContiguous ==
    /\ \A i, j \in 1..Len(wire) :
         (i < j /\ wire[i].k = "sel" /\ wire[j].k = "cmd"
                /\ wire[i].n = wire[j].n) => j = i + 1
    /\ \A i, j, m \in 1..Len(wire) :
         (i < m /\ m < j /\ wire[i].n = wire[j].n) => wire[m].n = wire[i].n

\* A thread waits for the lock while another, on the other proxy, holds it
\* and has written its select and command frames.
C1_Witness ==
    \E t, u \in BusThreads :
      /\ t # u /\ sc[t].pc = "lock" /\ serialLock = u
      /\ sc[t].p # sc[u].p
      /\ \E i \in 1..Len(wire) : wire[i].k = "cmd" /\ wire[i].n = sc[u].n

\* C2: a send takes the lock, flushes input then output, writes the select
\* frame carrying its own proxy's address, writes the command frame, reads
\* if asked to, and releases the lock; so every command frame on the
\* transport comes right after a select frame of the same send carrying the
\* address of the proxy that issued the command.
C2_SelectThenCommand ==
    /\ \A j \in 1..Len(wire) :
         wire[j].k = "cmd" =>
           /\ j > 1
           /\ wire[j - 1].k = "sel"
           /\ wire[j - 1].n = wire[j].n
           /\ wire[j - 1].a = Address(wire[j].p)
    /\ \A i, j \in 1..Len(wire) :
         (i < j /\ wire[i].n = wire[j].n) => Rank(wire[i].k) < Rank(wire[j].k)
    /\ \A j \in 1..Len(wire) :
         (Rank(wire[j].k) > 1) =>
            /\ j > 1
            /\ wire[j - 1].n = wire[j].n
            /\ Rank(wire[j - 1].k) = Rank(wire[j].k) - 1
    /\ \A t \in BusThreads :
         /\ InSend(t) => serialLock = t
         /\ ~InSend(t) => serialLock # t

\* Both proxies have had a command written, each after its own select.
C2_Witness ==
    \E i, j \in 1..Len(wire) :
      /\ wire[i].k = "cmd" /\ wire[i].p = "tdk"
      /\ wire[j].k = "cmd" /\ wire[j].p = "tdk_lens"
      /\ \E t \in BusThreads : sc[t].pc = "idle" /\ sc[t].ret = "data"

EsWorker(w) == variant = "ES" /\ wk[w].pc # "idle"

\* step is non-zero and points from start to stop
Matching(w) ==
    /\ wk[w].step # 0
    /\ Sign(wk[w].step) = Sign(wk[w].stop - wk[w].start)

\* the worker ended by itself: not cancelled, no measurement failure
Completed(w) == wk[w].pc = "done" /\ wk[w].exit \in {"finished", "range"}

\* start, start+step, ... while stop is not passed, then stop itself when
\* the next value would overshoot
RECURSIVE ClaimedFrom(_, _, _)
ClaimedFrom(v, stop, step) ==
    IF v = stop THEN <<v>>
    ELSE IF (step > 0 /\ v > stop) \/ (step < 0 /\ v < stop) THEN <<stop>>
    ELSE <<v>> \o ClaimedFrom(v + step, stop, step)

\* C3 as stated: an ES sweep with a non-zero step of matching sign that is
\* neither cancelled nor fails commands exactly start, start+step, ... and
\* last of all stop itself.
C3_ExactSequence ==
    \A w \in Workers :
      (EsWorker(w) /\ Matching(w) /\ Completed(w)) =>
         wk[w].cmds = ClaimedFrom(wk[w].start, wk[w].stop, wk[w].step)

\* C3, amended: the commanded voltages begin at start, move by step (the
\* last move is shortened to land on stop when a full step would pass it),
\* are strictly monotonic and finite, none lies beyond stop, every value
\* but the last is farther than eps from stop, and the last value of a
\* sweep that ran to its end is within eps of stop.
C3_SequenceWithinEps ==
    \A w \in Workers :
      (EsWorker(w) /\ Matching(w)) =>
        LET c == wk[w].cmds
            n == Len(wk[w].cmds)
            stop == wk[w].stop
            step == wk[w].step
        IN  /\ n >= 1 => c[1] = wk[w].start
            /\ n <= Abs(stop - wk[w].start) + 1
            /\ \A i \in 1..n : Sign(stop - c[i]) \in {0, Sign(step)}
            /\ \A i \in 1..(n - 1) :
                 /\ Sign(c[i + 1] - c[i]) = Sign(step)
                 /\ \/ c[i + 1] = c[i] + step
                    \/ /\ c[i + 1] = stop
                       /\ Abs(stop - c[i]) < Abs(step)
                 /\ Abs(c[i] - stop) > Eps
            /\ Completed(w) => (n >= 1 /\ Abs(c[n] - stop) <= Eps)

\* A sweep that ran to its end in three voltages, the last one stop itself,
\* reached by a shortened step.
C3_Witness ==
    \E w \in Workers :
      /\ EsWorker(w) /\ Matching(w) /\ Completed(w)
      /\ Len(wk[w].cmds) = 3
      /\ wk[w].cmds[3] = wk[w].stop
      /\ wk[w].cmds[3] # wk[w].cmds[2] + wk[w].step

C5_StartedOnlyOnMatch ==
    \A w \in Workers :
      wk[w].pc # "idle" =>
         \/ wk[w].start = wk[w].stop
         \/ Sign(wk[w].step) = Sign(wk[w].stop - wk[w].start)

\* C6: every accepted sweep worker reaches its end.
C6_Terminates ==
    \A w \in Workers : (wk[w].pc = "top") ~> (wk[w].pc = "done")

\* C7: in the ES sweep, while the cancellation flag has stayed set since it
\* was requested, a worker that was running at the request has issued at
\* most one further device command (a set-voltage or a measurement, so no
\* rollback command either), has emitted at most one further sample, has
\* entered no further voltage step, and has ended by its seventh step after
\* the request.
C7_CancelledSweepStops ==
    \A w \in Workers :
      (EsWorker(w) /\ stopEvent /\ wk[w].reqd) =>
         /\ wk[w].sinceCmds <= 1
         /\ wk[w].sinceEmits <= 1
         /\ wk[w].sinceTops = 0
         /\ wk[w].sinceSteps <= 7
         /\ wk[w].sinceSteps = 7 => wk[w].pc = "done"

\* A cancelled worker that measured once and emitted once after the request.
C7_Witness ==
    \E w \in Workers :
      /\ EsWorker(w) /\ stopEvent /\ wk[w].reqd
      /\ wk[w].pc = "done" /\ wk[w].exit = "cancelled"
      /\ wk[w].sinceCmds = 1 /\ wk[w].sinceEmits = 1

\* C8: a worker that was running when stop was requested enters no further
\* voltage step, whatever the UI does afterwards.
C8_StoppedWorkerStops ==
    \A w \in Workers : wk[w].reqd => wk[w].sinceTops = 0

\* C9: an ES sweep step makes at most 10 measurement attempts; after 10
\* failures the worker has ended with no sample for that step; no emitted
\* sample has an absent current.
C9_BoundedAttempts ==
    \A w \in Workers :
      EsWorker(w) =>
         /\ wk[w].stepMeas <= MaxAttempts
         /\ wk[w].mid_attempts <= MaxAttempts
         /\ \A i \in 1..Len(wk[w].emitted) : wk[w].emitted[i].i # None
         /\ wk[w].exit = "failed" =>
              /\ wk[w].pc = "done"
              /\ wk[w].stepMeas = MaxAttempts
              /\ Len(wk[w].cmds) < dom.log =>
                    Len(wk[w].emitted) = Len(wk[w].cmds) - 1

\* A sweep ended by ten failed attempts in its second step.
C9_Witness ==
    \E w \in Workers :
      /\ EsWorker(w) /\ wk[w].exit = "failed"
      /\ wk[w].stepMeas = MaxAttempts
      /\ Len(wk[w].cmds) = 2

\* C10: in both variants a step sets the voltage, measures, then emits the
\* sample: the samples' voltages are the commanded voltages in order, one
\* sample at most per command, and a sample is emitted only after a
\* measurement taken since its command.
C10_SampleFollowsCommand ==
    \A w \in Workers :
      LET c == wk[w].cmds
          e == wk[w].emitted
      IN  /\ Len(e) <= Len(c)
          /\ Len(c) - Len(e) <= 1
          /\ \A i \in 1..Len(e) : e[i].v = c[i]
          /\ (Len(c) < dom.log /\ Len(c) > 0 /\ Running(w)
                /\ Len(e) = Len(c)) => wk[w].stepMeas >= 1
          /\ (Len(c) < dom.log
                /\ wk[w].pc \in {"midwait", "midcheck", "cond", "acquire",
                                 "measure", "post", "emit"})
                => Len(c) = Len(e) + 1

\* Two samples emitted and the third voltage commanded.
C10_Witness ==
    \E w \in Workers :
      /\ Len(wk[w].emitted) = 2
      /\ Len(wk[w].cmds) = 3
      /\ wk[w].cmds[3] # wk[w].cmds[1]

\* C11: a poll started with count N makes one measurement per emitted
\* sample, has emitted N samples when it ends with no cancellation flag set
\* during its run and never more than N, emits nothing after it has seen a
\* flag at an iteration boundary (it ends there), and goes on after a failed
\* measurement, whose sample carries an absent current.
C11_PollCounts ==
    \A p \in Pollers :
      LET n == Len(pl[p].emitted)
      IN  /\ n <= pl[p].steps
          /\ pl[p].nMeas = IF pl[p].pc \in {"volt", "emit"} THEN n + 1 ELSE n
          /\ pl[p].pc \in {"top", "acquire", "measure"} => n = pl[p].i
          /\ (pl[p].pc = "done" /\ ~pl[p].flagged) =>
                (n = pl[p].steps /\ pl[p].exit = "exhausted")
          /\ pl[p].exit = "exhausted" => n = pl[p].steps
          /\ pl[p].saw => (pl[p].pc = "done" /\ pl[p].exit = "cancelled"
                             /\ pl[p].flagged)
          /\ pl[p].exit = "cancelled" => pl[p].saw

\* A poll of two that ended by itself, its first measurement having failed.
C11_Witness ==
    \E p \in Pollers :
      /\ pl[p].pc = "done" /\ pl[p].exit = "exhausted" /\ ~pl[p].flagged
      /\ pl[p].steps = 2 /\ Len(pl[p].emitted) = 2
      /\ pl[p].emitted[1].i = None
      /\ pl[p].emitted[2].i # None

\* The threads inside self.amm.measure_current().
InMeasure ==
    {w \in Workers : wk[w].pc = "measure"}
      \cup {p \in Pollers : pl[p].pc = "measure"}
      \cup (IF uiAt = "measure" THEN {"ui"} ELSE {})

\* C12: in the ES variant at most one thread is inside measure_current at
\* any time, be it single_measure on the UI thread, a poll or a sweep: the
\* thread inside holds the measurement lock, and the lock is free again
\* whenever no thread is inside.
C12_OneMeasurementAtATime ==
    variant = "ES" =>
       /\ Cardinality(InMeasure) <= 1
       /\ \A t \in InMeasure : ammLock = t
       /\ InMeasure = {} => ammLock = NoThread

\* A poll is inside measure_current while the sweep and single_measure wait
\* for the lock.
C12_Witness ==
    /\ variant = "ES"
    /\ \E p \in Pollers : pl[p].pc = "measure"
    /\ \E w \in Workers : wk[w].pc = "acquire"
    /\ uiAt = "acquire"

\* C14 as stated: a send that waits for the bus lock waits for a send on its
\* own transport; a send in progress on another transport does not block it.
C14_LockPerTransport ==
    \A t, u \in BusThreads :
      (sc[t].pc = "lock" /\ serialLock = u) =>
         Transport(sc[t].p) = Transport(sc[u].p)


\* C13: the response of a querying send is read after that send's own
\* command frame and before any other thread flushes, writes or reads: while
\* a call waits for its response the last thing on the transport is its own
\* command, and every response read directly follows the command of the
\* same call.
C13_ResponseFollowsOwnCommand ==
    /\ \A t \in BusThreads :
         sc[t].pc = "read" =>
           /\ Len(wire) > 0
           /\ wire[Len(wire)].k = "cmd"
           /\ wire[Len(wire)].t = t
           /\ wire[Len(wire)].n = sc[t].n
    /\ \A i \in 1..Len(wire) :
         wire[i].k = "read" =>
           /\ i > 1
           /\ wire[i - 1].k = "cmd"
           /\ wire[i - 1].t = wire[i].t
           /\ wire[i - 1].n = wire[i].n

\* A response has been read while another thread is inside its own call,
\* waiting for the lock.
C13_Witness ==
    \E t, u \in BusThreads :
      /\ t # u
      /\ sc[t].pc = "unlock"
      /\ sc[t].why \in {"first", "second"}
      /\ Len(wire) > 0
      /\ wire[Len(wire)].k = "read"
      /\ wire[Len(wire)].t = t
      /\ sc[u].pc = "lock"


\* C15 (as stated): a thread inside the send of a derived operation holds
\* the per-instance lock of the proxy in addition to the bus lock.
C15_InstanceLockHeldInEverySend ==
    \A t \in BusThreads :
      (InSend(t) /\ sc[t].op # "send_command") =>
        (serialLock = t /\ instLock[sc[t].p] = t)

\* The operations whose body is inside `with self._instance_lock:`.
Setters == {"set_voltage", "set_current", "set_output"}

\* C15: set_voltage, set_current and set_output hold the proxy's
\* per-instance lock and the bus lock for the whole of their send, and no
\* other thread is then inside one of these three on the same proxy;
\* get_actual_voltage, get_actual_current, get_id and reset hold the bus
\* lock alone; the sends of two calls never overlap.
C15_SettersHoldInstanceLock ==
    /\ \A t \in BusThreads :
         (InSend(t) /\ sc[t].op # "send_command") =>
           /\ serialLock = t
           /\ sc[t].op \in Setters <=> instLock[sc[t].p] = t
    /\ \A t, u \in BusThreads :
         (t # u /\ InSend(t)) => ~InSend(u)
    /\ \A t, u \in BusThreads :
         (/\ t # u
          /\ sc[t].p = sc[u].p
          /\ sc[t].pc \in {"entry", "lock", "return"} \/ InSend(t)
          /\ sc[u].pc \in {"entry", "lock", "return"} \/ InSend(u))
         => ~(sc[t].op \in Setters /\ sc[u].op \in Setters)

\* A setter is inside its send while another thread waits for the instance
\* lock of the same proxy.
C15_Witness ==
    \E t, u \in BusThreads :
      /\ t # u
      /\ sc[t].op = "set_voltage" /\ sc[t].pc = "command"
      /\ sc[u].op = "set_current" /\ sc[u].pc = "ilock"
      /\ sc[u].p = sc[t].p


\* A call of send_command that has reached its return statement.
Returned(t) == sc[t].pc \in {"unlock", "idle", "return"} /\ sc[t].n > 0

\* C16: send_command with a response expected tests for available input at
\* most twice: data at the first test is returned stripped; otherwise data
\* at the second test is returned stripped, and "" when there is none.  It
\* returns None, never "", when no response was requested, when the
\* transport is closed, and on an I/O fault.
C16_ResponseOrEmptyOrNone ==
    \A t \in BusThreads :
      /\ sc[t].checks <= 2
      /\ Returned(t) =>
           /\ sc[t].why \in {"first", "second", "nodata", "noresp", "closed", "fault"}
           /\ sc[t].why = "first" =>
                (sc[t].get /\ sc[t].checks = 1 /\ sc[t].ret = Strip(sc[t].raw))
           /\ sc[t].why = "second" =>
                (sc[t].get /\ sc[t].checks = 2 /\ sc[t].ret = Strip(sc[t].raw))
           /\ sc[t].why = "nodata" =>
                (sc[t].get /\ sc[t].checks = 2 /\ sc[t].ret = "")
           /\ sc[t].why \in {"noresp", "closed", "fault"} =>
                (sc[t].ret = None /\ sc[t].checks = 0)
           /\ sc[t].why = "noresp" => ~sc[t].get
           /\ sc[t].ret = None <=> sc[t].why \in {"noresp", "closed", "fault"}
           /\ (sc[t].why \in {"first", "second"} /\ sc[t].raw = " 12.5\r\n") =>
                sc[t].ret = "12.5"

\* One call found nothing at either test and returned ""; another found its
\* response at the second test and returned it stripped.
C16_Witness ==
    \E t, u \in BusThreads :
      /\ t # u
      /\ sc[t].pc = "idle" /\ sc[t].why = "nodata" /\ sc[t].ret = ""
      /\ sc[u].pc = "idle" /\ sc[u].why = "second" /\ sc[u].ret = "12.5"


\* The transport events of the call numbered n.
CallEvents(n) == {i \in 1..Len(wire) : wire[i].n = n}

\* C17: when a transport operation raises inside send_command the call
\* returns None without raising, the bus lock is free of the caller once
\* send_command has returned (on every exit path), the proxy still has its
\* address and its transport, and nothing more is done on the transport for
\* that call: no reopen, no retry.
C17_FaultReturnsNoneAndReleases ==
    \A t \in BusThreads :
      /\ sc[t].pc \in {"idle", "return"} => serialLock # t
      /\ sc[t].why = "fault" =>
           /\ sc[t].pc \in {"unlock", "idle", "return"}
           /\ sc[t].ret = None
           /\ sc[t].res.kind # "raised"
           /\ \A i \in CallEvents(sc[t].n) :
                /\ i <= sc[t].faultAt
                /\ wire[i].k # "read"
                /\ wire[i].p = sc[t].p
                /\ wire[i].k = "sel" => wire[i].a = Address(sc[t].p)
                /\ \A j \in CallEvents(sc[t].n) : wire[j].k = wire[i].k => j = i

\* A call faulted after its select frame was written and has returned; the
\* other thread has taken the lock since.
C17_Witness ==
    \E t, u \in BusThreads :
      /\ t # u
      /\ sc[t].pc = "idle" /\ sc[t].why = "fault"
      /\ \E i \in CallEvents(sc[t].n) : wire[i].k = "sel"
      /\ serialLock = u
      /\ sc[u].n > sc[t].n


\* A derived operation that has returned to its caller.
OpDone(t) == sc[t].pc = "idle" /\ sc[t].n > 0 /\ sc[t].op # "send_command"

\* C18: whatever the transport delivers (nothing, an empty line, text that
\* is not a number, a number), get_actual_voltage and get_actual_current
\* return the parsed number or None and never raise; with nothing to read
\* they return None.
C18_GettersNeverRaise ==
    \A t \in BusThreads :
      (OpDone(t) /\ sc[t].op \in {"get_actual_voltage", "get_actual_current"}) =>
        /\ sc[t].res.kind \in {"none", "float"}
        /\ sc[t].why = "nodata" => sc[t].res.kind = "none"
        /\ sc[t].ret \in {None, "", "abc"} => sc[t].res.kind = "none"
        /\ sc[t].ret = "12.5" => (sc[t].res.kind = "float" /\ sc[t].res.v = 12500)
        /\ sc[t].res.kind = "float" => sc[t].ret = "12.5"

\* One getter was answered with text that is not a number and returned
\* None; the other was answered with a number and returned it.
C18_Witness ==
    \E t, u \in BusThreads :
      /\ t # u
      /\ OpDone(t) /\ sc[t].op = "get_actual_voltage"
      /\ sc[t].ret = "abc" /\ sc[t].res.kind = "none"
      /\ OpDone(u) /\ sc[u].op = "get_actual_current"
      /\ sc[u].ret = "12.5" /\ sc[u].res.kind = "float"


\* C19: in the energy-spread window, whatever the order of connect_power,
\* connect_lens, disconnect_power and disconnect_lens, a serial object that
\* has been closed is held by neither the main proxy nor the lens proxy,
\* and it was closed by a disconnect handler that left none of the two
\* proxies on it.
C19_ClosedOnlyWhenUnreferenced ==
    variant = "ES" =>
      \A i \in DOMAIN sers :
        ~sers[i].open =>
          /\ on.tdk # i
          /\ on.lens # i
          /\ sers[i].closer \in {"disconnect_power", "disconnect_lens"}
          /\ sers[i].left = {}

\* A serial object both proxies shared has been closed by disconnect_lens
\* after disconnect_power had only dropped its reference.
C19_Witness ==
    /\ variant = "ES"
    /\ \E i \in DOMAIN sers :
         /\ sers[i].shared
         /\ ~sers[i].open
         /\ sers[i].closer = "disconnect_lens"


\* C20 (as stated): when the device handle a worker uses becomes
\* unavailable while it runs (disconnect_amm or disconnect_power sets it to
\* None), the fault is caught inside the worker loop: the poll goes on to
\* its next iteration, the sweep aborts its remaining steps, and no exception
\* escapes the worker thread.
C20_NoExceptionEscapes ==
    /\ \A w \in Workers : wk[w].exit # "raised"
    /\ \A p \in Pollers : pl[p].exit # "raised"


\* C21: at most one sweep worker is active at any time: two
\* _step_and_measure_thread workers never run concurrently against the
\* power supply self.tdk.
C21_OneSweepWorker ==
    Cardinality({w \in Workers : Running(w)}) <= 1


\* C22: in the combined variant, for every accepted (start, stop, step)
\* with non-zero step of matching sign, a sweep that runs to its end has
\* commanded a monotonic sequence of voltages beginning at start whose last
\* element equals stop.
C22_CombinedSweepEndsAtStop ==
    \A w \in Workers :
      (variant = "CB" /\ Matching(w) /\ Completed(w)) =>
        LET c == wk[w].cmds
            n == Len(wk[w].cmds)
        IN  /\ n >= 1
            /\ c[1] = wk[w].start
            /\ \A i \in 1..(n - 1) : Sign(c[i + 1] - c[i]) = Sign(wk[w].step)
            /\ c[n] = wk[w].stop


\* The line terminators a text ends with.
RECURSIVE Terminators(_)
Terminators(s) ==
    IF EndsWithNewline(s)
      THEN 1 + Terminators(SubSeq(s, 1, Len(s) - 1)) ELSE 0

\* C23: every frame a component writes ends with exactly one line
\* terminator, whether or not the command passed in already ended with
\* one: a command that already ends with one terminator is written as it
\* is.
C23_OneTerminator ==
    (tx.op = "encode" /\ Terminators(tx.cmd) <= 1) =>
       /\ Terminators(tx.frame) = 1
       /\ Terminators(tx.cmd) = 1 => tx.frame = tx.cmd


\* C24: reading a response never fails because of its content: for every
\* byte sequence received, non-ASCII bytes included, the read/decode step
\* returns a string and raises nothing.
C24_DecodeNeverRaises ==
    tx.event = "data" => tx.out.kind = "str"


\* C25: on both serial and TCP transports read_response returns the empty
\* response when no data arrives within the timeout and raises nothing;
\* only an I/O fault raises, as an I/O failure; a timeout never gives a
\* non-empty string.
C25_TimeoutIsEmpty ==
    tx.op = "read_response" =>
       /\ tx.event = "timeout" => tx.out = Str(<<>>)
       /\ tx.event = "fault" => tx.out.kind = "IOError"


\* The line a serial component has read, as characters: what is not ASCII
\* left out, white space at both ends removed.
ReadLine == StripText(SelectSeq(tx.raw, IsLow))

\* C26: whatever the picoammeter answers to the query (a line beginning
\* with the error marker, nothing within the timeout, text that is not a
\* number, a number), measure_current returns the parsed number or None and
\* never raises; a line beginning with the error marker makes send_command
\* return None.
C26_MeasureCurrentNeverRaises ==
    tx.op = "measure_current" =>
       /\ tx.out.kind \in {"float", "none"}
       /\ (Len(ReadLine) > 0 /\ ReadLine[1] = "ERROR") =>
             (tx.resp = Absent /\ tx.out = Absent)
       /\ tx.event = "timeout" => (tx.resp = Str(<<>>) /\ tx.out = Absent)
       /\ ReadLine = <<"abc">> => tx.out = Absent
       /\ (tx.event = "data" /\ ReadLine = <<"1.5E-9">>) =>
             tx.out = Num(<<"1.5E-9">>)
       /\ tx.out.kind = "float" => ReadLine = <<"1.5E-9">>

\* The picoammeter has answered with a line that begins with the error
\* marker, and measure_current has returned None.
C26_Witness ==
    /\ tx.op = "measure_current"
    /\ tx.raw = <<"ERROR", SP, "abc">>
    /\ tx.out = Absent


\* A line of ASCII characters has been read and decoded.
DecodedLine ==
    /\ tx.op \in {"decode", "read_response", "query"}
    /\ tx.event = "data"
    /\ ~HasHigh(tx.raw)

C28_SettersReportFailure ==
    \A t \in BusThreads :
      (OpDone(t) /\ sc[t].op \in Setters) =>
        /\ sc[t].res.kind = "bool"
        /\ sc[t].why = "noresp" => sc[t].res.v = 1
        /\ sc[t].why \in {"closed", "fault"} => sc[t].res.v = 0


\* The proxy lock is requested by a thread that holds no lock, and the
\* thread holding the bus lock is inside the body of send_command, where no
\* lock is requested.
ProxyLockBeforeBusLock ==
    \A t \in BusThreads :
      /\ sc[t].pc = "ilock" =>
           /\ serialLock # t
           /\ \A p \in Proxies : instLock[p] # t
      /\ serialLock = t => InSend(t)
      /\ (\E p \in Proxies : instLock[p] = t) =>
           sc[t].pc \in {"entry", "lock", "return"} \/ InSend(t)

\* The measurement lock is held inside measure_current only, never where a
\* supply is read or written.
MeasureLockAlone ==
    /\ ammLock \notin BusThreads
    /\ \A p \in Pollers : ammLock = p => pl[p].pc = "measure"
    /\ ammLock = "ui" => uiAt = "measure"

\* A thread is blocked where it requests a lock that another thread holds.
BlockedAt(t) ==
    IF t \in BusThreads
      THEN \/ sc[t].pc = "ilock" /\ instLock[sc[t].p] # NoThread
           \/ sc[t].pc = "lock" /\ serialLock # NoThread
    ELSE IF t \in Pollers THEN pl[t].pc = "acquire" /\ ammLock # NoThread
    ELSE uiAt = "acquire" /\ ammLock # NoThread

\* A thread is inside an operation and not blocked: its next step can be
\* taken.
Advancing(t) ==
    /\ ~BlockedAt(t)
    /\ IF t \in BusThreads THEN sc[t].pc # "idle"
       ELSE IF t \in Pollers THEN PollRunning(t)
       ELSE uiAt # "idle"

\* A thread blocked at a lock leaves another thread able to take a step.
WaitersLeaveProgress ==
    LET All == BusThreads \cup Pollers \cup {"ui"}
    IN  \A t \in All : BlockedAt(t) => \E u \in All \ {t} : Advancing(u)

\* No operation is under way: of a proxy, of the poll, of the manual
\* measurement.
Quiet ==
    /\ \A t \in BusThreads : sc[t].pc = "idle"
    /\ \A p \in Pollers : ~PollRunning(p)
    /\ uiAt = "idle"

C30_OneThreadInAmmeter ==
    \A t \in InMeasure : InMeasure = {t}


\* C31: a serial transport opened by a connect handler is closed once every
\* proxy that used it has been disconnected: with the main and the lens
\* supply both disconnected, whatever ports they were connected on, no
\* serial object the window opened is still open.
C31_NoTransportLeftOpen ==
    (on.tdk = 0 /\ on.lens = 0) => \A i \in DOMAIN sers : ~sers[i].open


\* C32: on a connected picoammeter with no I/O fault a setter that sends a
\* valid command reports success: reset, set_auto_range, set_zero_check and
\* set_zero_correct return True, and set_current_range with an allowed value
\* returns True and records the value as the current range.
C32_SettersReportSuccess ==
    (/\ km.op \in KmSetters /\ km.was /\ ~km.fault
     /\ km.op = "set_current_range" => km.arg \in MeasureRanges) =>
       /\ km.out = "True"
       /\ km.op = "set_current_range" => km.range = km.arg

\* C33: connect returns a boolean and never raises: True only when the
\* identity response contains the model string, and False, with the port
\* closed and the instrument marked not connected, in every other outcome.
C33_ConnectReturnsBoolean ==
    km.op = "connect" =>
       /\ km.out \in {"True", "False"}
       /\ km.out = "True" => ModelIn(km.raw)
       /\ km.out = "False" => km.serial # "open" /\ ~km.connected


\* C34: after any sequence of connect_serial, connect_tcp and disconnect
\* calls the controller's instrument handle is absent exactly when its
\* connection type is absent; a failed connect leaves the controller
\* disconnected after a single attempt; and no transport that was opened is
\* let go of without being closed: every open one is the one held.
C34_HandleIffType ==
    /\ scpi.instrument = 0 <=> scpi.connection_type = "none"
    /\ (scpi.op \in {"connect_serial", "connect_tcp"} /\ ~scpi.ok) =>
          /\ scpi.instrument = 0 /\ scpi.connection_type = "none"
          /\ scpi.attempts = 1
    /\ \A h \in DOMAIN scpi.handles :
          scpi.handles[h].open => scpi.instrument = h


\* The commands thread k's run has written, in order, the identity query
\* left out.
RunWrites(k) ==
    LET ByRun(e) == e.th = k /\ e.by = "run" /\ e.cmd # "*IDN?"
    IN  SelectSeq(rf.wire, ByRun)

\* C35: in a PowerThread run the output is switched on only after the reset
\* and after both targets were written: OUTP:STAT 1 is the fourth command,
\* after *RST, VOLT:AMPL and CURR:AMPL in this order, and no MEAS query
\* comes before it.
C35_OutputOnAfterTargets ==
    \A k \in DOMAIN rf.th :
      LET c == RunWrites(k)
      IN  \A i \in DOMAIN c :
            c[i].cmd = "OUTP:STAT 1" =>
               /\ i = 4
               /\ c[1].cmd = "*RST"
               /\ c[2].cmd = "VOLT:AMPL"
               /\ c[3].cmd = "CURR:AMPL"

\* C36: when a running PowerThread is stopped its last device command is
\* OUTP:STAT 0; when toggle_connection stopped it, that command was written
\* before the port was closed.  (Threads whose writes raised are left out.)
C36_OutputOffBeforeClose ==
    \A k \in DOMAIN rf.th :
      LET c == RunWrites(k)
      IN  (/\ rf.th[k].stopped /\ ~rf.th[k].faulted
           /\ \E i \in DOMAIN c : c[i].cmd = "OUTP:STAT 1"
           /\ rf.ui.pc = "idle" /\ rf.ui.op = "toggle"
           /\ rf.ui.result = "closed") =>
             c[Len(c)].cmd = "OUTP:STAT 0"

\* C37: while set_targets applies new targets the polling loop reads
\* nothing: no MEAS query is written between the VOLT:AMPL and the
\* CURR:AMPL of one set_targets call, and the pause flag is cleared when
\* the call is over.
C37_NoReadWhileSetting ==
    /\ \A i \in DOMAIN rf.wire :
         (rf.wire[i].by = "set" /\ rf.wire[i].cmd = "CURR:AMPL"
          /\ i > 1) =>
            rf.wire[i - 1].cmd \notin {"MEAS:VOLT?", "MEAS:CURR?"}
    /\ \A k \in DOMAIN rf.th :
         rf.ui.pc \notin {"setV", "setC"} => ~rf.th[k].paused


\* C38: the worker started from a widget's start button polls and controls
\* that widget's own proxy, and its data updates that widget's display.
C38_WorkerBoundToOwnWidget ==
    (rf.ui.op = "start" /\ rf.ui.result = "started") =>
       /\ rf.th[rf.ui.t].widget = rf.ui.w
       /\ DisplayOf(rf.th[rf.ui.t].name) = rf.ui.w

\* C39: while a supply's worker is running, a set request from that
\* supply's widget reaches the worker: _on_set finds the thread started for
\* the same supply and calls set_targets on it.
C39_SetReachesWorker ==
    (/\ rf.ui.op = "on_set"
     /\ rf.supply[rf.ui.w]
     /\ rf.threads[WidgetName(rf.ui.w)] # 0) =>
       /\ rf.ui.pc = "targets"
       /\ rf.ui.t = rf.threads[WidgetName(rf.ui.w)]


\* The update threads that are running.
DispActive == {d \in DispWorkers : disp.wk[d].pc # 0}

\* C40: at most one display-update worker is active at any time and the
\* flag is set while it runs; a timer tick that found the previous update
\* unfinished started no worker; and the flag is cleared at the end of
\* every update, whatever the reads returned, so that a set flag is always
\* followed by a cleared one.
C40_OneDisplayWorker ==
    /\ [](/\ Cardinality(DispActive) <= 1
          /\ DispActive # {} <=> disp.updating
          /\ disp.tick.was => ~disp.tick.started)
    /\ disp.updating ~> ~disp.updating

\* A tick has been skipped while an update was reading, one of whose reads
\* raised and one of whose reads gave data.
C40_Witness ==
    /\ disp.tick.was /\ ~disp.tick.started
    /\ \E d \in DispActive :
         disp.wk[d].raised /\ disp.wk[d].data # {}

=============================================================================
